---- MODULE Spec2Model ----
(***************************************************************************)
(* Model of the orchestrator REST backend: the authorization dispatcher    *)
(* (orchestrator/auth.py), the entity filter builder and the paginated     *)
(* query executor (orchestrator/v1/crud.py, orchestrator/common/crud.py).  *)
(***************************************************************************)
EXTENDS Integers, Sequences, FiniteSets, TLC

VARIABLES
    settings,       \* Settings: AUTHZ_MODE, ADMIN_EMAIL_LIST, ADMIN_GROUP_LIST
    access_levels,  \* flaat access levels set by configure_flaat
    auth_call,      \* the last authorization dependency call and its input
    auth_out,       \* how that call ended
    flt_call,       \* the last get_conditions call: implementation, entity, kwargs
    flt_out,        \* its result: the exception raised or the predicate list
    table,          \* stored rows of the Deployment table
    lst_call,       \* the last get_items call: skip, limit, sort, kwargs
    lst_out,        \* its result: page, total, predicates used by either query
    lst_prev,       \* results of the earlier calls with the same arguments
    pg_call,        \* the last paginated response built: request URL, page, size, total
    pg_out,         \* its page details and navigation links
    db,             \* stored rows of the User, Template and Deployment tables
    db_call,        \* the last create, update or delete call and the rows before it
    db_out,         \* how it ended: the exception raised, or the value returned
    db_prev,        \* outcome of the earlier call with the same arguments
    lifespan        \* the lifespan context: its position, the calls made, the state yielded

vars == <<settings, access_levels, auth_call, auth_out,
          flt_call, flt_out, table, lst_call, lst_out, lst_prev,
          pg_call, pg_out, db, db_call, db_out, db_prev, lifespan>>

authVars == <<settings, access_levels, auth_call, auth_out>>
fltVars  == <<flt_call, flt_out>>
lstVars  == <<table, lst_call, lst_out, lst_prev>>
pgVars   == <<pg_call, pg_out>>
dbVars   == <<db, db_call, db_out, db_prev>>
lifeVars == <<lifespan>>

None == "None"

(***************************************************************************)
(* orchestrator/auth.py                                                    *)
(***************************************************************************)

Emails == {"alice@x.org", "bob@x.org"}
Groups == {"admins", "users"}

\* Authorization modes: the AuthorizationMethodsEnum members has_user_access
\* and configure_flaat dispatch on (email, groups, opa), and the unset mode.
AuthzModes == {"email", "groups", "opa", None}

\* Outcomes of a dependency call.
RETURNED == "returned"
HTTP_401_UNAUTHORIZED == "HTTPException(401)"
HTTP_500_INTERNAL_SERVER_ERROR == "HTTPException(500)"
Unhandled(exc) == "raised " \o exc

\* Verified identities handed over by check_authentication (flaat UserInfos).
UserInfosSet ==
    [subject : {"", "sub-1"}, issuer : {"", "https://idp"},
     email : Emails \union {None}, groups : SUBSET Groups]

\* Value of a claim of the identity (UserInfos.get).
UserClaim(user_infos, claim) ==
    IF claim = "email" THEN user_infos.email
    ELSE IF claim = "groups" THEN user_infos.groups
    ELSE None

\* flaat HasSubIss: subject and issuer are both non-empty.
HasSubIss(user_infos) == user_infos.subject # "" /\ user_infos.issuer # ""

\* flaat HasClaim(required, claim): the claim equals the required value, or
\* holds it when the claim is a list.
HasClaim(user_infos, claim, required) ==
    LET value == UserClaim(user_infos, claim) IN
    /\ value # None
    /\ IF claim = "groups" THEN required \in value ELSE value = required

\* flaat get_claim_requirement(required=list, claim, match=n): at least n of
\* the values of the list are held.
ClaimRequirementSatisfied(user_infos, req) ==
    Cardinality({r \in req.required : HasClaim(user_infos, req.claim, r)}) >= req.match

\* AllOf(HasSubIss(), ...): HasSubIss and every further requirement hold.
RequirementSatisfied(user_infos, requirement) ==
    /\ HasSubIss(user_infos)
    /\ \A req \in requirement : ClaimRequirementSatisfied(user_infos, req)

\* configure_flaat with is_admin left without the claim requirement.
configure_flaat_levels_no_claim(s) ==
    IF s.AUTHZ_MODE \in {"email", "groups"}
    THEN [configured |-> TRUE, levels |-> [l \in {"is_user", "is_admin"} |-> {}]]
    ELSE [configured |-> TRUE, levels |-> [l \in {} |-> {}]]

\* configure_flaat: the access levels installed for the authorization mode.
configure_flaat_levels(s) ==
    IF s.AUTHZ_MODE \in {"email", "groups"}
    THEN LET required == IF s.AUTHZ_MODE = "email" THEN s.ADMIN_EMAIL_LIST
                         ELSE s.ADMIN_GROUP_LIST
             email_requirement == [required |-> required, claim |-> "email", match |-> 1]
         IN [configured |-> TRUE,
             levels |-> [l \in {"is_user", "is_admin"} |->
                            IF l = "is_user" THEN {} ELSE {email_requirement}]]
    ELSE [configured |-> TRUE, levels |-> [l \in {} |-> {}]]

\* check_local_authorization: FlaatForbidden becomes HTTP 401.
check_local_authorization(user_infos, access_level, levels) ==
    IF RequirementSatisfied(user_infos, levels.levels[access_level])
    THEN RETURNED
    ELSE HTTP_401_UNAUTHORIZED

\* What requests.post can do: answer with a status code and a body, or raise.
OpaReplies ==
    [kind : {"response"}, status_code : {200, 400, 500, 404},
     body : {"result_true", "result_false", "result_missing", "not_json"}]
    \union [kind : {"exception"},
            exc : {"requests.ReadTimeout", "requests.ConnectTimeout",
                   "requests.ConnectionError"}]

\* Classes an exception of requests is an instance of.
ExcClasses(exc) ==
    IF exc = "requests.ReadTimeout"
    THEN {"requests.ReadTimeout", "requests.Timeout", "requests.RequestException", "OSError"}
    ELSE IF exc = "requests.ConnectTimeout"
    THEN {"requests.ConnectTimeout", "requests.ConnectionError", "requests.Timeout",
          "requests.RequestException", "OSError"}
    ELSE {"requests.ConnectionError", "requests.RequestException", "OSError"}

\* except (requests.Timeout, ConnectionError): the second name is the builtin.
OpaExceptClause == {"requests.Timeout", "builtins.ConnectionError"}

\* check_opa_authorization
check_opa_authorization(reply) ==
    IF reply.kind = "exception"
    THEN IF ExcClasses(reply.exc) \cap OpaExceptClause # {}
         THEN HTTP_500_INTERNAL_SERVER_ERROR
         ELSE Unhandled(reply.exc)
    ELSE IF reply.status_code = 200 /\ reply.body = "not_json"
    THEN Unhandled("requests.JSONDecodeError")
    ELSE IF reply.status_code = 200 /\ reply.body # "result_true"
    THEN HTTP_401_UNAUTHORIZED
    ELSE IF reply.status_code = 400
    THEN HTTP_500_INTERNAL_SERVER_ERROR
    ELSE IF reply.status_code = 500
    THEN HTTP_500_INTERNAL_SERVER_ERROR
    ELSE HTTP_500_INTERNAL_SERVER_ERROR

\* has_user_access / has_admin_access: dispatch on the authorization mode.
has_access(access_level, user_infos, reply, s, levels) ==
    IF s.AUTHZ_MODE \in {"email", "groups"}
    THEN check_local_authorization(user_infos, access_level, levels)
    ELSE IF s.AUTHZ_MODE = "opa"
    THEN check_opa_authorization(reply)
    ELSE RETURNED

has_user_access(user_infos, reply, s, levels) ==
    has_access("is_user", user_infos, reply, s, levels)

has_admin_access(user_infos, reply, s, levels) ==
    has_access("is_admin", user_infos, reply, s, levels)

NoCall == [fn |-> "none"]
Unconfigured == [configured |-> FALSE, levels |-> [l \in {} |-> {}]]

\* configure_flaat, called once at application startup.
ConfigureFlaat ==
    /\ access_levels = Unconfigured
    /\ access_levels' = configure_flaat_levels(settings)
    /\ UNCHANGED <<settings, auth_call, auth_out>>
    /\ UNCHANGED <<fltVars, lstVars, pgVars, dbVars, lifeVars>>

HasUserAccess ==
    /\ access_levels.configured
    /\ auth_call = NoCall
    /\ \E user_infos \in UserInfosSet, reply \in OpaReplies :
        /\ auth_call' = [fn |-> "has_user_access", user_infos |-> user_infos, reply |-> reply]
        /\ auth_out' = has_user_access(user_infos, reply, settings, access_levels)
    /\ UNCHANGED <<settings, access_levels>>
    /\ UNCHANGED <<fltVars, lstVars, pgVars, dbVars, lifeVars>>

HasAdminAccess ==
    /\ access_levels.configured
    /\ auth_call = NoCall
    /\ \E user_infos \in UserInfosSet, reply \in OpaReplies :
        /\ auth_call' = [fn |-> "has_admin_access", user_infos |-> user_infos, reply |-> reply]
        /\ auth_out' = has_admin_access(user_infos, reply, settings, access_levels)
    /\ UNCHANGED <<settings, access_levels>>
    /\ UNCHANGED <<fltVars, lstVars, pgVars, dbVars, lifeVars>>

\* The response is sent; the next request starts from no per-request state.
AuthRequestDone ==
    /\ auth_call # NoCall
    /\ auth_call' = NoCall
    /\ auth_out' = None
    /\ UNCHANGED <<settings, access_levels>>
    /\ UNCHANGED <<fltVars, lstVars, pgVars, dbVars, lifeVars>>

\* The settings configure_flaat and the dependencies read.
SettingsSet ==
    [AUTHZ_MODE : AuthzModes,
     ADMIN_EMAIL_LIST : SUBSET Emails,
     ADMIN_GROUP_LIST : SUBSET Groups]

\* The lifespan context before the application starts.
NotStarted == [module |-> "", authn_mode |-> None, pc |-> "", calls |-> <<>>, state |-> <<>>]
IdleLife == lifespan = NotStarted

\* PageNavigation: a link left out (None) and a link to a URL.
AbsentLink == <<>>
Link(url) == <<url>>
NoPage ==
    [number |-> 0, size |-> 0, total_elements |-> 0, total_pages |-> 0,
     links |-> [first |-> AbsentLink, prev |-> AbsentLink,
                next |-> AbsentLink, last |-> AbsentLink]]
IdlePage == pg_call = NoCall /\ pg_out = NoPage

\* The outcome of a call that returned None.
NoMessage == [element |-> "", attrs |-> <<>>]
ReturnedNone == [exc |-> "", message |-> NoMessage, returned |-> <<>>]
EmptyDb == [User |-> {}, Template |-> {}, Deployment |-> {}, OwnedDeployments |-> {}]
IdleDb ==
    /\ db = EmptyDb
    /\ db_call = NoCall
    /\ db_out = ReturnedNone
    /\ db_prev = <<>>
IdleFilter == flt_call = NoCall /\ flt_out = [exc |-> "", conds |-> <<>>]
IdleList ==
    /\ table = {}
    /\ lst_call = NoCall
    /\ lst_out = [exc |-> "", items |-> <<>>, tot_items |-> 0,
                  page_conditions |-> <<>>, count_conditions |-> <<>>]
    /\ lst_prev = <<>>
IdleAuth ==
    /\ settings = [AUTHZ_MODE |-> None, ADMIN_EMAIL_LIST |-> {}, ADMIN_GROUP_LIST |-> {}]
    /\ access_levels = [configured |-> FALSE, levels |-> [l \in {} |-> {}]]
    /\ auth_call = NoCall
    /\ auth_out = None

InitAuth ==
    /\ settings \in SettingsSet
    /\ access_levels = Unconfigured
    /\ auth_call = NoCall
    /\ auth_out = None
    /\ IdleFilter
    /\ IdleLife
    /\ IdleList
    /\ IdlePage
    /\ IdleDb

NextAuth == ConfigureFlaat \/ HasUserAccess \/ HasAdminAccess \/ AuthRequestDone

SpecAuth == InitAuth /\ [][NextAuth]_vars

(***************************************************************************)
(* orchestrator/__init__.py and orchestrator/main.py: lifespan             *)
(***************************************************************************)

\* The modules that define app and its lifespan.
LifespanModules == {"orchestrator", "orchestrator.main"}

\* AUTHN_MODE: AuthenticationMethodsEnum or None.
AuthnModes == {"local", None}

\* logging.getLogger(name): the logger of that name.
get_logger(name) == [name |-> name]

\* logger = get_logger(settings)
logger == get_logger(settings)

\* A call of a function the lifespan imports, with its arguments.
Call(fn, args) == [fn |-> fn, args |-> args]

\* The lifespan goes on from one statement to the next, with one more call.
LifespanStep(from, to, calls) ==
    /\ lifespan.pc = from
    /\ lifespan' = [lifespan EXCEPT !.pc = to, !.calls = @ \o calls]

\* logger = get_logger(settings)
LifespanGetLogger ==
    /\ LifespanStep("start", "logger", <<Call("get_logger", <<settings>>)>>)
    /\ UNCHANGED <<authVars, fltVars, lstVars, pgVars, dbVars>>

\* configure_flaat(settings, logger), a statement of orchestrator.main only.
LifespanConfigureFlaat ==
    /\ lifespan.module = "orchestrator.main"
    /\ LifespanStep("logger", "flaat", <<Call("configure_flaat", <<settings, logger>>)>>)
    /\ access_levels' = configure_flaat_levels(settings)
    /\ UNCHANGED <<settings, auth_call, auth_out>>
    /\ UNCHANGED <<fltVars, lstVars, pgVars, dbVars>>

\* create_db_and_tables(logger)
LifespanCreateDbAndTables ==
    /\ LifespanStep(IF lifespan.module = "orchestrator.main" THEN "flaat" ELSE "logger",
                    "tables", <<Call("create_db_and_tables", <<logger>>)>>)
    /\ UNCHANGED <<authVars, fltVars, lstVars, pgVars, dbVars>>

\* orchestrator.main: create_fake_user(session) when AUTHN_MODE is None,
\* else delete_fake_user(session).
LifespanFakeUser ==
    /\ lifespan.module = "orchestrator.main"
    /\ LifespanStep("tables", "fake_user",
                    <<Call(IF lifespan.authn_mode = None THEN "create_fake_user"
                           ELSE "delete_fake_user", <<"session">>)>>)
    /\ UNCHANGED <<authVars, fltVars, lstVars, pgVars, dbVars>>

\* yield {"logger": logger}
LifespanYield ==
    /\ lifespan.pc = (IF lifespan.module = "orchestrator.main" THEN "fake_user"
                      ELSE "tables")
    /\ lifespan' = [lifespan EXCEPT !.pc = "yielded", !.state = <<[logger |-> logger]>>]
    /\ UNCHANGED <<authVars, fltVars, lstVars, pgVars, dbVars>>

\* The context exits and the generator resumes: dispose_engine(logger)
LifespanExit ==
    /\ LifespanStep("yielded", "exited", <<Call("dispose_engine", <<logger>>)>>)
    /\ UNCHANGED <<authVars, fltVars, lstVars, pgVars, dbVars>>

\* The context exits with an exception, which is raised at the yield: no
\* statement after it runs.
LifespanExitWithException ==
    /\ LifespanStep("yielded", "raised", <<>>)
    /\ UNCHANGED <<authVars, fltVars, lstVars, pgVars, dbVars>>

\* The settings are read; AUTHZ_MODE is set only where AUTHN_MODE is.
InitLife ==
    /\ settings \in SettingsSet
    /\ access_levels = Unconfigured
    /\ auth_call = NoCall
    /\ auth_out = None
    /\ \E module \in LifespanModules, authn_mode \in AuthnModes :
        /\ (authn_mode = None => settings.AUTHZ_MODE = None)
        /\ lifespan = [NotStarted EXCEPT !.module = module, !.authn_mode = authn_mode,
                                         !.pc = "start"]
    /\ IdleFilter
    /\ IdleList
    /\ IdlePage
    /\ IdleDb

NextLife ==
    \/ LifespanGetLogger \/ LifespanConfigureFlaat \/ LifespanCreateDbAndTables
    \/ LifespanFakeUser \/ LifespanYield \/ LifespanExit \/ LifespanExitWithException

SpecLife == InitLife /\ [][NextLife]_vars

(***************************************************************************)
(* orchestrator/v1/crud.py, orchestrator/common/crud.py: filter builder    *)
(***************************************************************************)

\* A name (filter key or column) is a sequence of tokens, so that
\* k.endswith("_lte") and k[:-4] are computed on the name itself:
\* "timeout_lte" is <<"timeout", "_lte">>.
Name(s) == <<s>>
endswith(k, suffix) == Len(k) > 0 /\ k[Len(k)] = suffix
StripSuffix(k) == SubSeq(k, 1, Len(k) - 1)

Entities == {"User", "Deployment"}

\* entity.__table__.c: the columns of the table (relationships are none).
Columns(entity) ==
    IF entity = "User"
    THEN {Name("id"), Name("created_at"), Name("sub"), Name("name"),
          Name("email"), Name("issuer")}
    ELSE {Name("id"), Name("created_at"), Name("updated_at"), Name("template_id"),
          Name("user_group"), Name("timeout"), Name("status"),
          Name("created_by_id"), Name("updated_by_id")}

\* entity.__table__.c.get(k): the column, or None.
NoColumn == <<>>
ColumnGet(entity, k) == IF k \in Columns(entity) THEN k ELSE NoColumn

\* Python values by type.
PyNone == [t |-> "NoneType", v |-> 0]
PyStr(chars) == [t |-> "str", v |-> chars]
PyInt(n) == [t |-> "int", v |-> n]
PyUUID(n) == [t |-> "UUID", v |-> n]
PyDatetime(n) == [t |-> "datetime", v |-> n]
PyList(elems) == [t |-> "list", v |-> elems]

\* Result of evaluating a handler: the exception raised ("" when none) and
\* the expressions returned (empty when the handler returns None).
Returns(conds) == [exc |-> "", conds |-> conds]
Raises(exc) == [exc |-> exc, conds |-> <<>>]

\* An expression of the conditions list. key is the filter key it was built
\* for. op "False" is the Python constant that None == v evaluates to.
Expr(key, col, op, v) == [key |-> key, col |-> col, op |-> op, val |-> v]

\* col <= v, col >= v as Python and SQLAlchemy evaluate them: None on the
\* left is a TypeError, a comparison of a column with None an ArgumentError.
Inequality(key, col, op, v) ==
    IF col = NoColumn THEN Raises("TypeError")
    ELSE IF v.t = "NoneType" THEN Raises("ArgumentError")
    ELSE Returns(<<Expr(key, col, op, v)>>)

\* col == v: None == v is the Python constant False.
Equality(key, col, v) ==
    IF col = NoColumn THEN Returns(<<Expr(key, NoColumn, "False", v)>>)
    ELSE Returns(<<Expr(key, col, "==", v)>>)

\* col.icontains(v): None has no attribute icontains.
IContains(key, col, v) ==
    IF col = NoColumn THEN Raises("AttributeError")
    ELSE Returns(<<Expr(key, col, "icontains", v)>>)

\* field_map of _handle_special_date_fields
field_map ==
    [k \in {Name("created_before"), Name("created_after"), Name("updated_before"),
            Name("updated_after"), Name("start_before"), Name("start_after"),
            Name("end_before"), Name("end_after")} |->
        IF k = Name("created_before") THEN <<Name("created_at"), "<=">>
        ELSE IF k = Name("created_after") THEN <<Name("created_at"), ">=">>
        ELSE IF k = Name("updated_before") THEN <<Name("updated_at"), "<=">>
        ELSE IF k = Name("updated_after") THEN <<Name("updated_at"), ">=">>
        ELSE IF k = Name("start_before") THEN <<Name("start_date"), "<=">>
        ELSE IF k = Name("start_after") THEN <<Name("start_date"), ">=">>
        ELSE IF k = Name("end_before") THEN <<Name("end_date"), "<=">>
        ELSE <<Name("end_date"), ">=">>]

_handle_special_date_fields(entity, k, v) ==
    IF k \in DOMAIN field_map
    THEN LET field == field_map[k][1]
             op == field_map[k][2]
             col == ColumnGet(entity, field)
         IN Inequality(k, col, op, v)
    ELSE Returns(<<>>)

_handle_generic_field(entity, k, v) ==
    IF v.t = "UUID" THEN Equality(k, ColumnGet(entity, k), v)
    ELSE IF v.t = "str" THEN IContains(k, ColumnGet(entity, k), v)
    ELSE IF v.t \in {"int", "float"}
    THEN IF endswith(k, "_lte")
         THEN Inequality(k, ColumnGet(entity, StripSuffix(k)), "<=", v)
         ELSE IF endswith(k, "_gte")
         THEN Inequality(k, ColumnGet(entity, StripSuffix(k)), ">=", v)
         ELSE Equality(k, ColumnGet(entity, k), v)
    ELSE Returns(<<>>)

\* One iteration of the loop of get_conditions (v1): both handlers run.
v1_conditions_for(entity, k, v) ==
    LET special == _handle_special_date_fields(entity, k, v) IN
    IF special.exc # "" THEN special
    ELSE LET generic == _handle_generic_field(entity, k, v) IN
         IF generic.exc # "" THEN generic
         ELSE Returns(special.conds \o generic.conds)

\* One iteration of the loop of get_conditions (common): an elif chain.
\* entity.created_at is an attribute access: AttributeError when missing.
common_conditions_for(entity, k, v) ==
    IF k \in {Name("created_before"), Name("updated_before"),
              Name("created_after"), Name("updated_after")}
    THEN LET field == field_map[k][1]
             op == field_map[k][2]
         IN IF field \notin Columns(entity) THEN Raises("AttributeError")
            ELSE Inequality(k, field, op, v)
    ELSE IF v.t = "str" THEN IContains(k, ColumnGet(entity, k), v)
    ELSE IF v.t \in {"int", "float"}
    THEN IF endswith(k, "_lte") THEN Inequality(k, ColumnGet(entity, k), "<=", v)
         ELSE IF endswith(k, "_gte") THEN Inequality(k, ColumnGet(entity, k), ">=", v)
         ELSE Equality(k, ColumnGet(entity, k), v)
    ELSE Returns(<<>>)

conditions_for(impl, entity, k, v) ==
    IF impl = "v1" THEN v1_conditions_for(entity, k, v)
    ELSE common_conditions_for(entity, k, v)

\* get_conditions: the loop over kwargs.items(); the first exception ends it.
RECURSIVE get_conditions_loop(_, _, _, _)
get_conditions_loop(impl, entity, kwargs, conditions) ==
    IF kwargs = <<>> THEN Returns(conditions)
    ELSE LET r == conditions_for(impl, entity, Head(kwargs).k, Head(kwargs).v) IN
         IF r.exc # "" THEN r
         ELSE get_conditions_loop(impl, entity, Tail(kwargs), conditions \o r.conds)

get_conditions(impl, entity, kwargs) == get_conditions_loop(impl, entity, kwargs, <<>>)

\* Filter keys of the calls explored, in a fixed order.
FilterKeys ==
    <<Name("created_before"), Name("created_after"), Name("updated_before"),
      Name("updated_after"), Name("start_before"), Name("end_after"),
      Name("id"), Name("user_group"), Name("timeout"), <<"timeout", "_lte">>,
      <<"timeout", "_gte">>, Name("status"), Name("created_by")>>

ReservedKeys == DOMAIN field_map

\* Values of the calls explored. A list is given only to non-reserved keys.
FilterValues ==
    {PyNone, PyStr(<<"a">>), PyInt(1), PyUUID(1), PyDatetime(1), PyList({0})}

ValuesFor(k) == IF k \in ReservedKeys THEN FilterValues \ {PyList({0})} ELSE FilterValues

MaxKwargs == 2

\* kwargs: up to MaxKwargs items with distinct keys, in the order of FilterKeys.
RECURSIVE KwargsFrom(_, _)
KwargsFrom(first, n) ==
    IF n = 0 THEN {<<>>}
    ELSE {<<>>} \union
         UNION {{<<[k |-> FilterKeys[i], v |-> v]>> \o rest :
                    v \in ValuesFor(FilterKeys[i]), rest \in KwargsFrom(i + 1, n - 1)} :
                i \in first..Len(FilterKeys)}

GetConditions ==
    /\ flt_call = NoCall
    /\ \E impl \in {"v1", "common"}, entity \in Entities, kwargs \in KwargsFrom(1, MaxKwargs) :
        /\ flt_call' = [fn |-> "get_conditions", impl |-> impl,
                        entity |-> entity, kwargs |-> kwargs]
        /\ flt_out' = get_conditions(impl, entity, kwargs)
    /\ UNCHANGED <<authVars, lstVars, pgVars, dbVars, lifeVars>>

FilterCallDone ==
    /\ flt_call # NoCall
    /\ flt_call' = NoCall
    /\ flt_out' = Returns(<<>>)
    /\ UNCHANGED <<authVars, lstVars, pgVars, dbVars, lifeVars>>

InitFilter ==
    /\ IdleAuth
    /\ IdleFilter
    /\ IdleLife
    /\ IdleList
    /\ IdlePage
    /\ IdleDb

NextFilter == GetConditions \/ FilterCallDone

SpecFilter == InitFilter /\ [][NextFilter]_vars

(***************************************************************************)
(* orchestrator/v1/crud.py: get_items, and the listing of deployments      *)
(***************************************************************************)

\* str.lower() on the alphabet of the model, and the SQL icontains.
LowerChar(c) == IF c = "A" THEN "a" ELSE IF c = "B" THEN "b" ELSE c
Lower(str) == [i \in 1..Len(str) |-> LowerChar(str[i])]
Contains(str, sub) ==
    \E i \in 0..(Len(str) - Len(sub)) : SubSeq(str, i + 1, i + Len(sub)) = sub
icontains(str, sub) == Contains(Lower(str), Lower(sub))

\* Value of a column of a stored row.
ColumnValue(row, col) == row[col[1]]

\* A row satisfies an expression of the WHERE clause.
Satisfies(row, expr) ==
    IF expr.op = "False" THEN FALSE
    ELSE IF expr.op = "<=" THEN ColumnValue(row, expr.col) <= expr.val.v
    ELSE IF expr.op = ">=" THEN ColumnValue(row, expr.col) >= expr.val.v
    ELSE IF expr.op = "==" THEN ColumnValue(row, expr.col) = expr.val.v
    ELSE icontains(ColumnValue(row, expr.col), expr.val.v)

\* sqlalchemy.and_(True, *conditions)
SatisfiesAll(row, conditions) ==
    \A i \in 1..Len(conditions) : Satisfies(row, conditions[i])

Matching(rows, conditions) == {row \in rows : SatisfiesAll(row, conditions)}

\* sort: "-" prefix for descending, then the column name.
startswith(sort, prefix) == Len(sort) > 0 /\ sort[1] = prefix
SortColumn(sort) == IF startswith(sort, "-") THEN Tail(sort) ELSE sort

\* ORDER BY key: the orders of the rows the engine may give; rows with the
\* same value of the key come in any order.
InOrder(sort, r1, r2) ==
    IF startswith(sort, "-")
    THEN ColumnValue(r1, SortColumn(sort)) >= ColumnValue(r2, SortColumn(sort))
    ELSE ColumnValue(r1, SortColumn(sort)) <= ColumnValue(r2, SortColumn(sort))

Orderings(rows, sort) ==
    LET n == Cardinality(rows) IN
    {f \in [1..n -> rows] :
        /\ \A i, j \in 1..n : i # j => f[i] # f[j]
        /\ \A i \in 1..n : \A j \in (i + 1)..n : InOrder(sort, f[i], f[j])}

\* .offset(skip).limit(limit)
Window(ordered, skip, limit) ==
    SubSeq(ordered, skip + 1, IF skip + limit < Len(ordered) THEN skip + limit
                              ELSE Len(ordered))

\* The page statement of get_items: the conditions it filters with.
get_items_page_conditions(conditions) == conditions

\* A count statement that leaves the filter out.
get_items_count_unfiltered(conditions) == <<>>

\* The count statement of get_items: the conditions it filters with.
get_items_count_conditions(conditions) == conditions

\* get_items: given the order the engine gives the matching rows in.
get_items(rows, skip, limit, sort, kwargs, ordered) ==
    LET conditions == get_conditions("v1", "Deployment", kwargs) IN
    IF conditions.exc # ""
    THEN [exc |-> conditions.exc, items |-> <<>>, tot_items |-> 0,
          page_conditions |-> <<>>, count_conditions |-> <<>>]
    ELSE [exc |-> "",
          items |-> Window(ordered, skip, limit),
          tot_items |-> Cardinality(
              Matching(rows, get_items_count_conditions(conditions.conds))),
          page_conditions |-> get_items_page_conditions(conditions.conds),
          count_conditions |-> get_items_count_conditions(conditions.conds)]

\* DeploymentStatus values of the rows explored.
CREATE_COMPLETE == 0
CREATE_FAILED == 1
CREATE_IN_PROGRESS == 2
DELETE_COMPLETE == 3
DELETE_IN_PROGRESS == 5
Statuses == {CREATE_COMPLETE, CREATE_FAILED}

MaxRows == 2
MaxPage == 2
MaxSize == 2

UserGroups == {<<"a">>, <<"A", "b">>}

\* A stored Deployment row. Rows are added one after the other: created_at
\* (datetime.now of the default factory) grows with the id.
DeploymentRow(id, status, user_group) ==
    [id |-> id, created_at |-> id, updated_at |-> id,
     template_id |-> 1, user_group |-> user_group, timeout |-> 1,
     status |-> status, created_by_id |-> 1, updated_by_id |-> 1]

DeploymentRows(id) ==
    {DeploymentRow(id, st, g) : st \in Statuses, g \in UserGroups}

\* Tables of n rows with the ids 1..n.
RECURSIVE TablesOf(_)
TablesOf(n) ==
    IF n = 0 THEN {{}}
    ELSE {t \union {r} : t \in TablesOf(n - 1), r \in DeploymentRows(n)}

Tables == UNION {TablesOf(n) : n \in 0..MaxRows}

\* The optional filters of DeploymentQuery that are set.
DeploymentFilters ==
    {<<>>}
    \union {<<[k |-> Name("created_after"), v |-> PyDatetime(t)]>> : t \in 1..MaxRows}
    \union {<<[k |-> Name("created_before"), v |-> PyDatetime(t)]>> : t \in 1..MaxRows}
    \union {<<[k |-> Name("user_group"), v |-> PyStr(g)]>> : g \in {<<"a">>, <<"B">>}}
    \union {<<[k |-> <<"timeout", "_lte">>, v |-> PyInt(1)]>>}

\* DeploymentQuery.model_dump(exclude={"page", "size", "sort"},
\* exclude_none=True): template_id and status are always there, the filters
\* left unset are not.
DeploymentQueryDump(template_id, status, filters) ==
    filters \o <<[k |-> Name("template_id"), v |-> PyUUID(template_id)],
                 [k |-> Name("status"), v |-> PyList(status)]>>

\* sort: the default of SortQuery, and a column that rows share the value of.
Sorts == {<<"-", "created_at">>, <<"status">>}

\* retrieve_deployments: GET /deployments with the query parameters.
RetrieveDeployments ==
    /\ lst_call = NoCall
    /\ \E page \in 1..MaxPage, size \in 1..MaxSize, sort \in Sorts,
          template_id \in {1, 2}, status \in SUBSET Statuses,
          filters \in DeploymentFilters :
        LET kwargs == DeploymentQueryDump(template_id, status, filters)
            skip == (page - 1) * size
            conditions == get_conditions("v1", "Deployment", kwargs)
            matching == IF conditions.exc = ""
                        THEN Matching(table, get_items_page_conditions(conditions.conds))
                        ELSE {}
        IN \E ordered \in Orderings(matching, sort) :
            /\ lst_call' = [fn |-> "get_items", skip |-> skip, limit |-> size,
                            sort |-> sort, kwargs |-> kwargs, status |-> status]
            /\ lst_out' = get_items(table, skip, size, sort, kwargs, ordered)
    /\ lst_prev' = <<>>
    /\ UNCHANGED <<table, authVars, fltVars, pgVars, dbVars, lifeVars>>

\* The same request once more, on the same stored rows.
RetrieveDeploymentsAgain ==
    /\ lst_call # NoCall
    /\ lst_prev = <<>>
    /\ LET conditions == get_conditions("v1", "Deployment", lst_call.kwargs)
           matching == IF conditions.exc = ""
                       THEN Matching(table, get_items_page_conditions(conditions.conds))
                       ELSE {}
       IN \E ordered \in Orderings(matching, lst_call.sort) :
            lst_out' = get_items(table, lst_call.skip, lst_call.limit,
                                 lst_call.sort, lst_call.kwargs, ordered)
    /\ lst_prev' = <<lst_out>>
    /\ UNCHANGED <<table, lst_call, authVars, fltVars, pgVars, dbVars, lifeVars>>

NoResult ==
    [exc |-> "", items |-> <<>>, tot_items |-> 0,
     page_conditions |-> <<>>, count_conditions |-> <<>>]

ListRequestDone ==
    /\ lst_call # NoCall
    /\ lst_call' = NoCall
    /\ lst_out' = NoResult
    /\ lst_prev' = <<>>
    /\ UNCHANGED <<table, authVars, fltVars, pgVars, dbVars, lifeVars>>

InitList ==
    /\ IdleAuth
    /\ IdleFilter
    /\ IdleLife
    /\ IdlePage
    /\ IdleDb
    /\ table \in Tables
    /\ lst_call = NoCall
    /\ lst_out = NoResult
    /\ lst_prev = <<>>

NextList == RetrieveDeployments \/ RetrieveDeploymentsAgain \/ ListRequestDone

SpecList == InitList /\ [][NextList]_vars

(***************************************************************************)
(* users/crud.py get_users, users/dependencies.py get_current_user: the    *)
(* stored user of the caller                                               *)
(***************************************************************************)

\* get_users: get_items(entity=User, ...); the conditions it filters with,
\* the page and the count.
get_users(rows, skip, limit, sort, kwargs, ordered) ==
    LET conditions == get_conditions("v1", "User", kwargs) IN
    IF conditions.exc # ""
    THEN [exc |-> conditions.exc, items |-> <<>>, tot_items |-> 0]
    ELSE [exc |-> "",
          items |-> Window(ordered, skip, limit),
          tot_items |-> Cardinality(
              Matching(rows, get_items_count_conditions(conditions.conds)))]

\* The keyword arguments get_current_user gives to get_users.
CurrentUserKwargs(user_info) ==
    <<[k |-> Name("sub"), v |-> PyStr(user_info.sub)],
      [k |-> Name("issuer"), v |-> PyStr(user_info.iss)]>>

\* get_current_user: the newest stored user that get_users finds for the sub
\* and iss of the token.
get_current_user(rows, user_info, ordered) ==
    LET found == get_users(rows, 0, 1, <<"-", "created_at">>,
                           CurrentUserKwargs(user_info), ordered) IN
    IF found.exc # "" THEN [exc |-> found.exc, user |-> <<>>]
    ELSE IF found.tot_items = 0 THEN [exc |-> "ItemNotFoundError", user |-> <<>>]
    ELSE [exc |-> "", user |-> <<found.items[1]>>]

\* The sub and iss of the tokens and of the stored users.
Subjects == {<<"a">>, <<"A">>, <<"a", "b">>}
IssuerUrls == {<<"b">>, <<"b", "a">>}

\* Users 1..n with distinct (sub, issuer), made one after the other.
UserTables ==
    UNION {{{[id |-> i, created_at |-> i, sub |-> of[i][1], issuer |-> of[i][2]] :
                i \in 1..n} :
            of \in {f \in [1..n -> Subjects \X IssuerUrls] :
                        \A i, j \in 1..n : i # j => f[i] # f[j]}} :
           n \in 0..MaxRows}

\* A request with the token of user_info.
GetCurrentUser ==
    /\ lst_call = NoCall
    /\ \E sub \in Subjects, iss \in IssuerUrls :
        LET user_info == [sub |-> sub, iss |-> iss]
            conditions == get_conditions("v1", "User", CurrentUserKwargs(user_info))
            matching == IF conditions.exc = ""
                        THEN Matching(table, get_items_page_conditions(conditions.conds))
                        ELSE {}
        IN \E ordered \in Orderings(matching, <<"-", "created_at">>) :
            /\ lst_call' = [fn |-> "get_current_user", user_info |-> user_info]
            /\ lst_out' = get_current_user(table, user_info, ordered)
    /\ UNCHANGED <<table, lst_prev, authVars, fltVars, pgVars, dbVars, lifeVars>>

InitCurrentUser ==
    /\ IdleAuth
    /\ IdleFilter
    /\ IdleLife
    /\ IdlePage
    /\ IdleDb
    /\ table \in UserTables
    /\ lst_call = NoCall
    /\ lst_out = NoResult
    /\ lst_prev = <<>>

NextCurrentUser == GetCurrentUser

SpecCurrentUser == InitCurrentUser /\ [][NextCurrentUser]_vars


(***************************************************************************)
(* orchestrator/v1/schemas.py: Pagination, PaginatedList; and              *)
(* orchestrator/common/utils.py: get_page_navigation, get_paginated_list   *)
(***************************************************************************)

\* str(n) of a number put in a query string, and int(s) of a query value.
str(n) == PyStr(n)
int(s) == s.v

\* A URL: the path and the query as the list of its (key, value) items.
Url(path, query) == [path |-> path, query |-> query]

\* starlette URL.remove_query_params(key)
RECURSIVE WithoutKey(_, _)
WithoutKey(query, key) ==
    IF query = <<>> THEN <<>>
    ELSE IF Head(query).k = key THEN WithoutKey(Tail(query), key)
    ELSE <<Head(query)>> \o WithoutKey(Tail(query), key)

remove_query_params(url, key) == Url(url.path, WithoutKey(url.query, key))

\* starlette URL.include_query_params(key=value): MultiDict.update drops the
\* items of the key and appends the new one, str(value).
include_query_params(url, key, value) ==
    Url(url.path, WithoutKey(url.query, key) \o <<[k |-> key, v |-> str(value)]>>)

\* starlette URL.replace(query="")
replace_query_empty(url) == Url(url.path, <<>>)

\* math.ceil(total_elements / size) for size >= 1, total_elements >= 0.
math_ceil_div(total_elements, size) ==
    IF total_elements % size = 0 THEN total_elements \div size
    ELSE (total_elements \div size) + 1

\* A total_pages that leaves the empty list with no page.
total_pages_no_empty_case(total_elements, size) == math_ceil_div(total_elements, size)

\* Pagination.total_pages
total_pages(total_elements, size) ==
    LET val == math_ceil_div(total_elements, size) IN
    IF val = 0 THEN 1 ELSE val

\* A next link that is also given on the last page.
next_link_condition_inclusive(page_number, tot_pages) == page_number <= tot_pages

\* The condition of the next link: page_number < total_pages.
next_link_condition(page_number, tot_pages) == page_number < tot_pages

\* Links whose last link targets the page after the last one.
PaginatedList_links_last_after(resource_url, page_number, tot_pages) ==
    LET url == remove_query_params(resource_url, "page") IN
    [first |-> Link(include_query_params(url, "page", 1)),
     prev  |-> IF page_number > 1
               THEN Link(include_query_params(url, "page", page_number - 1))
               ELSE AbsentLink,
     next  |-> IF next_link_condition(page_number, tot_pages)
               THEN Link(include_query_params(url, "page", page_number + 1))
               ELSE AbsentLink,
     last  |-> Link(include_query_params(url, "page", tot_pages + 1))]

\* PaginatedList.links
PaginatedList_links(resource_url, page_number, tot_pages) ==
    LET url == remove_query_params(resource_url, "page") IN
    [first |-> Link(include_query_params(url, "page", 1)),
     prev  |-> IF page_number > 1
               THEN Link(include_query_params(url, "page", page_number - 1))
               ELSE AbsentLink,
     next  |-> IF next_link_condition(page_number, tot_pages)
               THEN Link(include_query_params(url, "page", page_number + 1))
               ELSE AbsentLink,
     last  |-> Link(include_query_params(url, "page", tot_pages))]

\* PaginatedList: the page details and the links of a response.
PaginatedList(resource_url, page_number, page_size, tot_items) ==
    LET tp == total_pages(tot_items, page_size) IN
    [number |-> page_number, size |-> page_size, total_elements |-> tot_items,
     total_pages |-> tp,
     links |-> PaginatedList_links(resource_url, page_number, tp)]

\* include_query_params(page=p, size=size) of get_page_navigation.
include_page_size(url, p, size) ==
    include_query_params(include_query_params(url, "page", p), "size", size)

\* common/utils.py get_page_navigation
get_page_navigation(url, size, curr_page, tot_pages) ==
    [first |-> Link(include_page_size(url, 1, size)),
     prev  |-> IF curr_page > 1
               THEN Link(include_page_size(url, curr_page - 1, size))
               ELSE AbsentLink,
     next  |-> IF next_link_condition(curr_page, tot_pages)
               THEN Link(include_page_size(url, curr_page + 1, size))
               ELSE AbsentLink,
     last  |-> Link(include_page_size(url, tot_pages, size))]

\* common/utils.py get_paginated_list
get_paginated_list(tot_items, url, page, size) ==
    LET tp == total_pages(tot_items, size) IN
    [number |-> page, size |-> size, total_elements |-> tot_items,
     total_pages |-> tp,
     links |-> get_page_navigation(replace_query_empty(url), size, page, tp)]

\* PaginationQuery: the defaults of size and page.
DefaultSize == 5
DefaultPage == 1

MaxTotal == 12
MaxPageNumber == 4
MaxPageSize == 5

\* "absent" for a parameter the request URL does not carry.
Absent == 0

\* Filter parameters on the request URL.
UrlFilters ==
    {<<>>,
     <<[k |-> "user_group", v |-> PyStr(<<"a">>)]>>,
     <<[k |-> "status", v |-> str(0)], [k |-> "status", v |-> str(1)]>>}

\* The query of the request URL: page and size where given, before or after
\* the filters.
RequestQuery(page, size, filters, page_first) ==
    LET paging ==
            (IF page = Absent THEN <<>> ELSE <<[k |-> "page", v |-> str(page)]>>)
            \o (IF size = Absent THEN <<>> ELSE <<[k |-> "size", v |-> str(size)]>>)
    IN IF page_first THEN paging \o filters ELSE filters \o paging

\* PaginationQuery: the value parsed from the query, or the default.
QueryParam(query, key, default) ==
    LET given == SelectSeq(query, LAMBDA item : item.k = key) IN
    IF given = <<>> THEN default ELSE int(given[Len(given)].v)

RequestUrls ==
    {Url("/api/v1/deployments", RequestQuery(page, size, filters, page_first)) :
        page \in {Absent} \union (1..MaxPageNumber),
        size \in {Absent} \union (1..MaxPageSize),
        filters \in UrlFilters, page_first \in BOOLEAN}

\* The end of a retrieve_* endpoint: the PaginatedList of the response.
BuildPaginatedList ==
    /\ pg_call = NoCall
    /\ \E url \in RequestUrls, tot_items \in 0..MaxTotal :
        LET page == QueryParam(url.query, "page", DefaultPage)
            size == QueryParam(url.query, "size", DefaultSize)
        IN /\ pg_call' = [fn |-> "PaginatedList", url |-> url, page |-> page,
                          size |-> size, tot_items |-> tot_items]
           /\ pg_out' = PaginatedList(url, page, size, tot_items)
    /\ UNCHANGED <<authVars, fltVars, lstVars, dbVars, lifeVars>>

\* common/utils.py get_paginated_list called with the request URL.
GetPaginatedList ==
    /\ pg_call = NoCall
    /\ \E url \in RequestUrls, tot_items \in 0..MaxTotal :
        LET page == QueryParam(url.query, "page", DefaultPage)
            size == QueryParam(url.query, "size", DefaultSize)
        IN /\ pg_call' = [fn |-> "get_paginated_list", url |-> url, page |-> page,
                          size |-> size, tot_items |-> tot_items]
           /\ pg_out' = get_paginated_list(tot_items, url, page, size)
    /\ UNCHANGED <<authVars, fltVars, lstVars, dbVars, lifeVars>>

PageRequestDone ==
    /\ pg_call # NoCall
    /\ pg_call' = NoCall
    /\ pg_out' = NoPage
    /\ UNCHANGED <<authVars, fltVars, lstVars, dbVars, lifeVars>>

InitPage ==
    /\ IdleAuth
    /\ IdleFilter
    /\ IdleLife
    /\ IdleList
    /\ IdlePage
    /\ IdleDb

NextPage == BuildPaginatedList \/ GetPaginatedList \/ PageRequestDone

SpecPage == InitPage /\ [][NextPage]_vars

(***************************************************************************)
(* orchestrator/v1/models.py and orchestrator/v1/crud.py: add_item,        *)
(* update_item, delete_item, raise_from_integrity_error                    *)
(***************************************************************************)

\* Columns of the tables.
Fields(entity) ==
    IF entity = "User"
    THEN {"id", "sub", "issuer", "public_ssh_key", "refresh_token", "created_at"}
    ELSE IF entity = "Template"
    THEN {"id", "content", "hash_content", "name", "version",
          "target_provider_type", "tosca_definitions_version",
          "created_by_id", "updated_by_id", "created_at", "updated_at"}
    ELSE {"id", "template_id", "user_group", "status", "created_by_id",
          "updated_by_id", "created_at", "updated_at"}

\* Columns that are NOT NULL and are given no value by a default.
RequiredFields(entity) ==
    IF entity = "User" THEN {"sub", "issuer"}
    ELSE IF entity = "Template"
    THEN {"content", "hash_content", "created_by_id", "updated_by_id"}
    ELSE {"template_id", "user_group", "created_by_id", "updated_by_id"}

\* UniqueConstraint("sub", "issuer") of User, unique=True of Template.hash_content.
UniqueConstraints(entity) ==
    IF entity = "User" THEN {<<"sub", "issuer">>}
    ELSE IF entity = "Template" THEN {<<"hash_content">>}
    ELSE {}

\* foreign_key= of the columns: the table a column points to.
ForeignKeys ==
    {[table |-> "Template", col |-> "created_by_id", ref |-> "User"],
     [table |-> "Template", col |-> "updated_by_id", ref |-> "User"],
     [table |-> "Deployment", col |-> "template_id", ref |-> "Template"],
     [table |-> "Deployment", col |-> "created_by_id", ref |-> "User"],
     [table |-> "Deployment", col |-> "updated_by_id", ref |-> "User"],
     [table |-> "OwnedDeployments", col |-> "owner_id", ref |-> "User"],
     [table |-> "OwnedDeployments", col |-> "deployment_id", ref |-> "Deployment"]}

\* Relationship attributes and the column each one sets.
Relationships ==
    [created_by |-> "created_by_id", updated_by |-> "updated_by_id",
     template |-> "template_id"]

\* entity.__tablename__
TableName(entity) ==
    IF entity = "User" THEN "user"
    ELSE IF entity = "Template" THEN "template" ELSE "deployment"

\* datetime.now(timezone.utc) of the request; stored rows are older.
Now == 1

\* sqlalchemy.exc.IntegrityError: the constraint and, as SQLite reports them,
\* the table.column names.
IntegrityError(kind, columns) == [kind |-> kind, columns |-> columns]
NoError == IntegrityError("", <<>>)

\* The constraints a row to store is checked against, given the other rows.
ConstraintError(tables, entity, row) ==
    LET missing == RequiredFields(entity) \ DOMAIN row
        violated == {cols \in UniqueConstraints(entity) :
                        /\ \A i \in DOMAIN cols : cols[i] \in DOMAIN row
                        /\ \E other \in tables[entity] :
                            \A i \in DOMAIN cols : other[cols[i]] = row[cols[i]]}
        dangling == {fk \in ForeignKeys :
                        /\ fk.table = entity
                        /\ fk.col \in DOMAIN row
                        /\ \A target \in tables[fk.ref] : target.id # row[fk.col]}
    IN IF missing # {}
       THEN IntegrityError("NOT NULL",
                <<<<TableName(entity), CHOOSE c \in missing : TRUE>>>>)
       ELSE IF violated # {}
       THEN LET cols == CHOOSE cols \in violated : TRUE IN
            IntegrityError("UNIQUE",
                [i \in DOMAIN cols |-> <<TableName(entity), cols[i]>>])
       ELSE IF dangling # {} THEN IntegrityError("FOREIGN KEY", <<>>)
       ELSE NoError

\* kwargs.get(attr): the value, or None (the empty option).
kwargs_get(kwargs, attr) == IF attr \in DOMAIN kwargs THEN <<kwargs[attr]>> ELSE <<>>

\* A ConflictError that names the columns with no value.
conflict_error_without_values(entity, error, kwargs) ==
    [exc |-> "ConflictError",
     message |-> [element |-> entity,
                  attrs |-> [i \in DOMAIN error.columns |->
                                [attr |-> error.columns[i][2], value |-> <<>>]]],
     returned |-> <<>>]

\* The ConflictError of raise_from_integrity_error: the message names each
\* column of the failed constraint with kwargs.get(column).
conflict_error(entity, error, kwargs) ==
    [exc |-> "ConflictError",
     message |-> [element |-> entity,
                  attrs |-> [i \in DOMAIN error.columns |->
                                [attr |-> error.columns[i][2],
                                 value |-> kwargs_get(kwargs, error.columns[i][2])]]],
     returned |-> <<>>]

\* raise_from_integrity_error: after the rollback, ConflictError when the
\* message matches "UNIQUE constraint failed: ..."; else it returns None.
raise_from_integrity_error(entity, error, kwargs) ==
    IF error.kind = "UNIQUE" THEN conflict_error(entity, error, kwargs)
    ELSE ReturnedNone

\* The column an attribute sets: itself, or the column of the relationship.
ColumnOf(attr) == IF attr \in DOMAIN Relationships THEN Relationships[attr] ELSE attr

\* The value an attribute gives its column: a related row gives its id.
ColumnValueOf(kwargs, attr) ==
    IF attr \in DOMAIN Relationships THEN kwargs[attr].id ELSE kwargs[attr]

\* The attributes of kwargs that set a column of the table; where a column
\* and its relationship are both given, the column is taken.
SettingAttrs(entity, kwargs) ==
    {attr \in DOMAIN kwargs :
        /\ ColumnOf(attr) \in Fields(entity)
        /\ (attr \in DOMAIN Relationships => ColumnOf(attr) \notin DOMAIN kwargs)}

\* entity(**kwargs): the row, with the defaults of id, status, created_at,
\* updated_at, public_ssh_key and refresh_token.
Construct(entity, kwargs, id) ==
    LET attrs == SettingAttrs(entity, kwargs)
        defaults == {"id", "status", "created_at", "updated_at", "public_ssh_key",
                     "refresh_token"} \cap Fields(entity)
        given == {ColumnOf(attr) : attr \in attrs}
    IN [c \in given \union defaults |->
            IF c \in given
            THEN ColumnValueOf(kwargs, CHOOSE attr \in attrs : ColumnOf(attr) = c)
            ELSE IF c = "id" THEN id
            ELSE IF c = "status" THEN CREATE_IN_PROGRESS
            ELSE IF c \in {"public_ssh_key", "refresh_token"} THEN None
            ELSE Now]

\* The rows of the association table that owned_by adds for a deployment.
OwnedRows(kwargs, id) ==
    IF "owned_by" \in DOMAIN kwargs
    THEN {[owner_id |-> owner.id, deployment_id |-> id] : owner \in kwargs.owned_by}
    ELSE {}

\* add_item: the rows after the call and its outcome.
add_item(tables, entity, kwargs, id) ==
    LET db_item == Construct(entity, kwargs, id)
        error == ConstraintError(tables, entity, db_item)
    IN IF error = NoError
       THEN [db |-> [tables EXCEPT ![entity] = @ \union {db_item},
                                   !.OwnedDeployments = @ \union OwnedRows(kwargs, id)],
             out |-> [exc |-> "", message |-> NoMessage, returned |-> <<db_item>>]]
       ELSE [db |-> tables,
             out |-> raise_from_integrity_error(entity, error, kwargs)]

\* A setting of attributes that leaves the row as it was.
SetAttrs_nothing_set(entity, item, kwargs) == item

\* item.__setattr__(k, v) for the items of kwargs; a row that changed gets
\* the onupdate value of updated_at when it is written.
SetAttrs(entity, item, kwargs) ==
    LET attrs == SettingAttrs(entity, kwargs)
        set == [c \in DOMAIN item |->
                   IF \E attr \in attrs : ColumnOf(attr) = c
                   THEN ColumnValueOf(kwargs, CHOOSE attr \in attrs : ColumnOf(attr) = c)
                   ELSE item[c]]
    IN IF set # item /\ "updated_at" \in DOMAIN item
       THEN [set EXCEPT !.updated_at = Now]
       ELSE set

\* update_item: the rows after the call and its outcome.
update_item(tables, entity, item, kwargs) ==
    LET updated == SetAttrs(entity, item, kwargs)
        others == [tables EXCEPT ![entity] = @ \ {item}]
        error == ConstraintError(others, entity, updated)
    IN IF error = NoError
       THEN [db |-> [tables EXCEPT ![entity] = (@ \ {item}) \union {updated}],
             out |-> ReturnedNone]
       ELSE [db |-> tables,
             out |-> raise_from_integrity_error(entity, error, kwargs)]

\* delete_item: "item_id" is renamed to "id".
RenameItemId(kwargs) ==
    [k \in (DOMAIN kwargs \ {"item_id"}) \union
           (IF "item_id" \in DOMAIN kwargs THEN {"id"} ELSE {}) |->
        IF k = "id" /\ "item_id" \in DOMAIN kwargs THEN kwargs.item_id ELSE kwargs[k]]

\* entity.__table__.c.get(k) == v for every item of kwargs: a row satisfies
\* it when k is a column with that value; for a k that is no column the
\* condition is None == v, that is False.
DeleteMatches(entity, row, kwargs) ==
    \A k \in DOMAIN kwargs : k \in Fields(entity) /\ row[k] = kwargs[k]

\* An engine that sees no dependent row.
Dependents_unseen(tables, entity, row) == {}

\* The rows of other tables that point to a row.
Dependents(tables, entity, row) ==
    {fk \in ForeignKeys :
        fk.ref = entity /\ \E r \in tables[fk.table] : r[fk.col] = row.id}

\* delete_item: the rows after the call and its outcome. A delete the engine
\* refuses is rolled back by raise_from_integrity_error, which returns.
delete_item(tables, entity, kwargs) ==
    LET conditions == RenameItemId(kwargs)
        matched == {row \in tables[entity] : DeleteMatches(entity, row, conditions)}
        error == IF \E row \in matched : Dependents(tables, entity, row) # {}
                 THEN IntegrityError("FOREIGN KEY", <<>>)
                 ELSE NoError
    IN IF error = NoError
       THEN [db |-> [tables EXCEPT ![entity] = @ \ matched], out |-> ReturnedNone]
       ELSE LET raised == raise_from_integrity_error(entity, error, conditions) IN
            [db |-> tables, out |-> raised]

\* get_item(entity, id=item_id): the row as an option.
get_item(tables, entity, id) == {row \in tables[entity] : row.id = id}

(***************************************************************************)
(* orchestrator/v1/users/crud.py, templates/crud.py, deployments/crud.py,  *)
(* templates/endpoints.py: the calls on the stored rows                    *)
(***************************************************************************)

MaxUsers == 2
MaxTemplates == 2
MaxDeployments == 2

Issuer == "https://idp.example.org"
DeploymentGroups == {"group-a", "group-b"}

\* hashlib.sha256(content.encode()).hexdigest()
sha256(content) == <<"sha256", content>>

\* The TOSCA bodies submitted, as yaml_to_json leaves them: JSON texts with no
\* metadata and no tosca_definitions_version.
ToscaBody(j) == ToString(j)

\* Rows stored before the call.
StoredUser(i) ==
    [id |-> i, sub |-> i, issuer |-> Issuer, public_ssh_key |-> None,
     refresh_token |-> None, created_at |-> 0]
StoredTemplate(j) ==
    [id |-> j, content |-> ToscaBody(j), hash_content |-> sha256(ToscaBody(j)),
     name |-> None, version |-> None, target_provider_type |-> None,
     tosca_definitions_version |-> None,
     created_by_id |-> 1, updated_by_id |-> 1, created_at |-> 0, updated_at |-> 0]
StoredDeployment(d, template_id, user_id) ==
    [id |-> d, template_id |-> template_id, user_group |-> "group-a",
     status |-> CREATE_COMPLETE, created_by_id |-> user_id, updated_by_id |-> user_id,
     created_at |-> 0, updated_at |-> 0]

\* The stored rows the calls start from: users 1..nu, templates 1..nt made by
\* user 1, deployments 1..nd, each of a stored template, made and owned by a
\* stored user.
StoredDbs ==
    {EmptyDb} \union
    UNION {UNION {UNION {
        {[User |-> {StoredUser(i) : i \in 1..nu},
          Template |-> {StoredTemplate(j) : j \in 1..nt},
          Deployment |-> {StoredDeployment(d, of[d][1], of[d][2]) : d \in 1..nd},
          OwnedDeployments |-> {[owner_id |-> of[d][2], deployment_id |-> d] :
                                    d \in 1..nd}] :
            of \in [1..nd -> (1..nt) \X (1..nu)]} :
        nd \in 0..(IF nt = 0 THEN 0 ELSE MaxDeployments)} :
        nt \in 0..MaxTemplates} :
        nu \in 1..MaxUsers}

\* The id (uuid4) of a new row: one that no stored row has.
NewId(tables, entity) ==
    CHOOSE id \in 1..(Cardinality(tables[entity]) + 1) :
        \A row \in tables[entity] : row.id # id

\* add_user: add_item(entity=User, **user.model_dump())
add_user(tables, user) == add_item(tables, "User", user, NewId(tables, "User"))

\* TemplateCreate.model_dump(): the content and the computed fields, which
\* are the hash of the content and what its metadata give.
TemplateCreate(content) ==
    [content |-> content, hash_content |-> sha256(content),
     name |-> None, version |-> None, target_provider_type |-> None,
     tosca_definitions_version |-> None]

\* add_template
add_template(tables, template, created_by) ==
    add_item(tables, "Template",
             [k \in DOMAIN template \union {"created_by", "updated_by"} |->
                 IF k \in DOMAIN template THEN template[k] ELSE created_by],
             NewId(tables, "Template"))

\* add_deployment: ItemNotFoundError when the template is not stored.
add_deployment(tables, deployment, created_by) ==
    LET template == get_item(tables, "Template", deployment.template_id) IN
    IF template = {}
    THEN [db |-> tables,
          out |-> [exc |-> "ItemNotFoundError", message |-> NoMessage,
                   returned |-> <<>>]]
    ELSE add_item(tables, "Deployment",
                  [k \in DOMAIN deployment \union
                         {"created_by", "updated_by", "owned_by", "template"} |->
                      IF k \in DOMAIN deployment THEN deployment[k]
                      ELSE IF k = "owned_by" THEN {created_by}
                      ELSE IF k = "template" THEN CHOOSE t \in template : TRUE
                      ELSE created_by],
                  NewId(tables, "Deployment"))

\* update_deployment: new_data.model_dump(exclude_none=True) and updated_by.
update_deployment(tables, deployment, new_data, updated_by) ==
    update_item(tables, "Deployment", deployment,
                [k \in DOMAIN new_data \union {"updated_by"} |->
                    IF k \in DOMAIN new_data THEN new_data[k] ELSE updated_by])

\* The fields of TemplateUpdate.
TemplateUpdateFields ==
    {"name", "version", "target_provider_type", "tosca_definitions_version"}

\* A parsing of the body that keeps every key of it.
TemplateUpdate_keeping_every_key(body) == body

\* TemplateUpdate.model_validate(body): the keys of the body that are no
\* field of the model are ignored.
TemplateUpdate(body) ==
    [k \in DOMAIN body \cap TemplateUpdateFields |-> body[k]]

\* model_dump(exclude_none=True)
model_dump_exclude_none(model) ==
    [k \in {k \in DOMAIN model : model[k] # None} |-> model[k]]

\* update_template: new_data.model_dump(exclude_none=True) and updated_by.
update_template(tables, template, new_data, updated_by) ==
    LET dump == model_dump_exclude_none(new_data) IN
    update_item(tables, "Template", template,
                [k \in DOMAIN dump \union {"updated_by"} |->
                    IF k \in DOMAIN dump THEN dump[k] ELSE updated_by])

\* delete_user: delete_item(entity=User, item=user)
delete_user(tables, user) == delete_item(tables, "User", [item |-> user])

\* delete_template: delete_item(entity=Template, id=template_id)
delete_template(tables, template_id) ==
    delete_item(tables, "Template", [id |-> template_id])

\* delete_deployment: delete_item(entity=Deployment, item=deployment) with
\* force, nothing without.
delete_deployment(tables, deployment, force) ==
    IF force THEN delete_item(tables, "Deployment", [item |-> deployment])
    ELSE [db |-> tables, out |-> ReturnedNone]

\* remove_template: DELETE /templates/{template_id}. The call
\* delete_template(session=session, template=template) gives a keyword that
\* delete_template does not take.
remove_template(tables, template_id) ==
    LET template == get_item(tables, "Template", template_id) IN
    IF template # {}
    THEN [db |-> tables,
          out |-> [exc |-> "TypeError", message |-> NoMessage, returned |-> <<>>]]
    ELSE [db |-> tables, out |-> ReturnedNone]

\* The state after a call: the rows, the call and its outcome.
Called(call, result) ==
    /\ db_call = NoCall
    /\ db_call' = call
    /\ db' = result.db
    /\ db_out' = result.out
    /\ db_prev' = <<>>
    /\ UNCHANGED <<authVars, fltVars, lstVars, pgVars, lifeVars>>

\* POST /users: add_user with the subject and issuer of the token.
AddUser ==
    \E sub \in 1..MaxUsers :
        LET user == [sub |-> sub, issuer |-> Issuer] IN
        Called([fn |-> "add_user", entity |-> "User", kwargs |-> user, before |-> db],
               add_user(db, user))

\* POST /templates: add_template with the parsed body, by a stored user.
AddTemplate ==
    \E j \in 1..MaxTemplates, created_by \in db.User :
        LET template == TemplateCreate(ToscaBody(j)) IN
        Called([fn |-> "add_template", entity |-> "Template", kwargs |-> template,
                before |-> db],
               add_template(db, template, created_by))

\* add_item(entity=Template, **kwargs) with no created_by and updated_by.
AddItem ==
    \E j \in 1..MaxTemplates :
        LET kwargs == TemplateCreate(ToscaBody(j)) IN
        Called([fn |-> "add_item", entity |-> "Template", kwargs |-> kwargs,
                before |-> db],
               add_item(db, "Template", kwargs, NewId(db, "Template")))

\* add_deployment for a template id, by a stored user.
AddDeployment ==
    \E template_id \in 1..MaxTemplates, user_group \in DeploymentGroups,
       created_by \in db.User :
        LET deployment == [template_id |-> template_id, user_group |-> user_group] IN
        Called([fn |-> "add_deployment", entity |-> "Deployment",
                kwargs |-> deployment, before |-> db],
               add_deployment(db, deployment, created_by))

\* DeploymentUpdate.model_dump(exclude_none=True): user_group where given.
DeploymentUpdates ==
    {[k \in {} |-> ""]} \union {[user_group |-> g] : g \in DeploymentGroups}

\* update_deployment of a stored deployment, by a stored user.
UpdateDeployment ==
    \E deployment \in db.Deployment, new_data \in DeploymentUpdates,
       updated_by \in db.User :
        Called([fn |-> "update_deployment", entity |-> "Deployment",
                item |-> deployment, kwargs |-> new_data,
                updated_by |-> updated_by, before |-> db],
               update_deployment(db, deployment, new_data, updated_by))

\* delete_user of a stored user.
DeleteUser ==
    \E user \in db.User :
        Called([fn |-> "delete_user", entity |-> "User", id |-> user.id,
                force |-> TRUE, before |-> db],
               delete_user(db, user))

\* delete_template of a template id.
DeleteTemplate ==
    \E template_id \in 1..MaxTemplates :
        Called([fn |-> "delete_template", entity |-> "Template", id |-> template_id,
                force |-> TRUE, before |-> db],
               delete_template(db, template_id))

\* DELETE /templates/{template_id}
RemoveTemplate ==
    \E template_id \in 1..MaxTemplates :
        Called([fn |-> "remove_template", entity |-> "Template", id |-> template_id,
                force |-> TRUE, before |-> db],
               remove_template(db, template_id))

\* delete_deployment of a stored deployment, with and without force.
DeleteDeployment ==
    \E deployment \in db.Deployment, force \in BOOLEAN :
        Called([fn |-> "delete_deployment", entity |-> "Deployment",
                id |-> deployment.id, force |-> force, before |-> db],
               delete_deployment(db, deployment, force))

DeleteCalls == {"delete_user", "delete_template", "remove_template", "delete_deployment"}

\* The delete call once more, with the same arguments.
delete_again(tables, call) ==
    IF call.fn = "delete_user"
    THEN delete_user(tables, CHOOSE user \in call.before.User : user.id = call.id)
    ELSE IF call.fn = "delete_template" THEN delete_template(tables, call.id)
    ELSE IF call.fn = "remove_template" THEN remove_template(tables, call.id)
    ELSE delete_deployment(tables,
             CHOOSE deployment \in call.before.Deployment : deployment.id = call.id,
             call.force)

DeleteAgain ==
    /\ db_call.fn \in DeleteCalls
    /\ db_prev = <<>>
    /\ LET result == delete_again(db, db_call) IN
        /\ db' = result.db
        /\ db_out' = result.out
    /\ db_prev' = <<db_out>>
    /\ UNCHANGED <<db_call, authVars, fltVars, lstVars, pgVars, lifeVars>>

InitCrud ==
    /\ IdleAuth
    /\ IdleFilter
    /\ IdleLife
    /\ IdleList
    /\ IdlePage
    /\ db \in StoredDbs
    /\ db_call = NoCall
    /\ db_out = ReturnedNone
    /\ db_prev = <<>>

NextCrud ==
    \/ AddUser \/ AddTemplate \/ AddItem \/ AddDeployment \/ UpdateDeployment
    \/ DeleteUser \/ DeleteTemplate \/ RemoveTemplate \/ DeleteDeployment
    \/ DeleteAgain

SpecCrud == InitCrud /\ [][NextCrud]_vars

(***************************************************************************)
(* templates/endpoints.py: PATCH /templates/{template_id}, request after   *)
(* request                                                                 *)
(***************************************************************************)

\* The requests of one behaviour.
MaxUpdates == 2

\* The JSON bodies of the PATCH requests: fields of TemplateUpdate, a field
\* given as null, and keys that are no field of it.
TemplateBodies ==
    {[name |-> "a"],
     [name |-> "b", version |-> None],
     [version |-> "1.0", target_provider_type |-> "openstack",
      tosca_definitions_version |-> "tosca_simple_yaml_1_3"]}
    \union {[name |-> "a", content |-> ToscaBody(j)] : j \in 1..MaxTemplates}

\* edit_template: update_template of the stored template with the parsed
\* body, by the current user. db_prev keeps the outcomes of the requests.
EditTemplate ==
    /\ Len(db_prev) < MaxUpdates
    /\ \E template \in db.Template, body \in TemplateBodies, current_user \in db.User :
        LET result == update_template(db, template, TemplateUpdate(body), current_user) IN
        /\ db_call' = [fn |-> "edit_template", entity |-> "Template",
                        id |-> template.id, body |-> body]
        /\ db' = result.db
        /\ db_out' = result.out
        /\ db_prev' = Append(db_prev, result.out)
    /\ UNCHANGED <<authVars, fltVars, lstVars, pgVars, lifeVars>>

\* The templates 1..MaxTemplates as they were created, by stored users.
InitTemplate ==
    /\ IdleAuth
    /\ IdleFilter
    /\ IdleLife
    /\ IdleList
    /\ IdlePage
    /\ db = [EmptyDb EXCEPT !.User = {StoredUser(i) : i \in 1..MaxUsers},
                             !.Template = {StoredTemplate(j) : j \in 1..MaxTemplates}]
    /\ db_call = NoCall
    /\ db_out = ReturnedNone
    /\ db_prev = <<>>

NextTemplate == EditTemplate

SpecTemplate == InitTemplate /\ [][NextTemplate]_vars

(***************************************************************************)
(* Calls one after the other                                               *)
(***************************************************************************)

\* The calls of one behaviour.
MaxCalls == 3

\* The state after one more call; db_prev keeps the outcomes of the calls.
Then(call, result) ==
    /\ Len(db_prev) < MaxCalls
    /\ db_call' = call
    /\ db' = result.db
    /\ db_out' = result.out
    /\ db_prev' = Append(db_prev, result.out)
    /\ UNCHANGED <<authVars, fltVars, lstVars, pgVars, lifeVars>>

(***************************************************************************)
(* users/dependencies.py, users/crud.py, users/endpoints.py: the requests  *)
(* on /users/{user_id} and /users/{user_id}/ssh_keys                       *)
(***************************************************************************)

\* The outcome of a call that raised.
Raised(exc) == [exc |-> exc, message |-> NoMessage, returned |-> <<>>]

\* The path parameter user_id: uuid.UUID | Literal["me"].
Me == PyStr("me")

\* user_id == "me"
IsMe(user_id) == user_id.t = "str" /\ user_id.v = "me"

\* UserDep, Depends(get_user): get_user declares user_id: uuid.UUID, so the
\* path parameter "me" does not validate and the request ends in 422 before
\* the endpoint runs; else the stored user of that id, or None.
get_user(tables, user_id) ==
    IF user_id.t # "UUID" THEN [exc |-> "RequestValidationError", user |-> {}]
    ELSE [exc |-> "", user |-> get_item(tables, "User", user_id.v)]

\* user_required
user_required(tables, user_id, current_user) ==
    LET user == get_user(tables, user_id) IN
    IF user.exc # "" THEN user
    ELSE IF IsMe(user_id) THEN [exc |-> "", user |-> {current_user}]
    ELSE IF user.user = {} THEN [exc |-> "ItemNotFoundError", user |-> {}]
    ELSE user

\* UserUpdate(public_ssh_key=...)
UserUpdate(public_ssh_key) ==
    [public_ssh_key |-> public_ssh_key, refresh_token |-> None]

\* update_user: new_data.model_dump(exclude_none=True)
update_user(tables, user, new_data) ==
    update_item(tables, "User", user, model_dump_exclude_none(new_data))

\* add_user_public_key: PATCH /users/{user_id}/ssh_keys with a public key.
add_user_public_key(tables, user_id, current_user, public_key) ==
    LET required == user_required(tables, user_id, current_user) IN
    IF required.exc # "" THEN [db |-> tables, out |-> Raised(required.exc)]
    ELSE LET user == CHOOSE user \in required.user : TRUE IN
         IF user.public_ssh_key # None
         THEN [db |-> tables, out |-> Raised("ConflictError")]
         ELSE update_user(tables, user, UserUpdate(public_key))

\* add_user_ssh_keys: POST /users/{user_id}/ssh_keys, with the public key
\* that create_ssh_keys gives; VAULT_ENABLE is False.
add_user_ssh_keys(tables, user_id, current_user, public_key) ==
    LET required == user_required(tables, user_id, current_user) IN
    IF required.exc # "" THEN [db |-> tables, out |-> Raised(required.exc)]
    ELSE LET user == CHOOSE user \in required.user : TRUE IN
         IF user.public_ssh_key # None
         THEN [db |-> tables, out |-> Raised("ConflictError")]
         ELSE update_user(tables, user, UserUpdate(public_key))

\* remove_user_public_key: DELETE /users/{user_id}/ssh_keys; VAULT_ENABLE is
\* False.
remove_user_public_key(tables, user_id, current_user) ==
    LET required == user_required(tables, user_id, current_user) IN
    IF required.exc # "" THEN [db |-> tables, out |-> Raised(required.exc)]
    ELSE LET user == CHOOSE user \in required.user : TRUE IN
         IF user.public_ssh_key # None
         THEN update_user(tables, user, UserUpdate(None))
         ELSE [db |-> tables, out |-> ReturnedNone]

\* remove_user: DELETE /users/{user_id}
remove_user(tables, user_id) ==
    LET user == get_user(tables, user_id) IN
    IF user.exc # "" THEN [db |-> tables, out |-> Raised(user.exc)]
    ELSE IF IsMe(user_id) THEN [db |-> tables, out |-> Raised("HTTP_400_BAD_REQUEST")]
    ELSE IF user.user # {} THEN delete_user(tables, CHOOSE u \in user.user : TRUE)
    ELSE [db |-> tables, out |-> ReturnedNone]

\* The user_id of the requests: "me", and the ids of stored and other users.
UserIds == {Me} \union {PyUUID(i) : i \in 1..(MaxUsers + 1)}

\* The public keys submitted, and the one that create_ssh_keys generates.
PublicKeys == {"ssh-ed25519 AAAA", "ssh-ed25519 BBBB"}
GeneratedKey == "ssh-rsa CCCC"

\* A request on a user, by a stored user.
UserRequest(fn, user_id, current_user) ==
    [fn |-> fn, entity |-> "User", user_id |-> user_id, current_user |-> current_user.id]

AddUserPublicKey ==
    \E user_id \in UserIds, current_user \in db.User, public_key \in PublicKeys :
        Then(UserRequest("add_user_public_key", user_id, current_user),
             add_user_public_key(db, user_id, current_user, public_key))

AddUserSshKeys ==
    \E user_id \in UserIds, current_user \in db.User :
        Then(UserRequest("add_user_ssh_keys", user_id, current_user),
             add_user_ssh_keys(db, user_id, current_user, GeneratedKey))

RemoveUserPublicKey ==
    \E user_id \in UserIds, current_user \in db.User :
        Then(UserRequest("remove_user_public_key", user_id, current_user),
             remove_user_public_key(db, user_id, current_user))

RemoveUser ==
    \E user_id \in UserIds, current_user \in db.User :
        Then(UserRequest("remove_user", user_id, current_user),
             remove_user(db, user_id))

\* The registered users, with no key.
InitUsers ==
    /\ IdleAuth
    /\ IdleFilter
    /\ IdleLife
    /\ IdleList
    /\ IdlePage
    /\ db = [EmptyDb EXCEPT !.User = {StoredUser(i) : i \in 1..MaxUsers}]
    /\ db_call = NoCall
    /\ db_out = ReturnedNone
    /\ db_prev = <<>>

NextUsers == AddUserPublicKey \/ AddUserSshKeys \/ RemoveUserPublicKey \/ RemoveUser

SpecUsers == InitUsers /\ [][NextUsers]_vars

(***************************************************************************)
(* templates/crud.py, deployments/crud.py, templates/endpoints.py: calls   *)
(* on templates and deployments, one after the other                       *)
(***************************************************************************)

\* add_template with a parsed body, by a stored user.
ThenAddTemplate ==
    \E j \in 1..MaxTemplates, created_by \in db.User :
        NewId(db, "Template") <= MaxTemplates
        /\ Then([fn |-> "add_template", entity |-> "Template", id |-> j],
                add_template(db, TemplateCreate(ToscaBody(j)), created_by))

\* add_deployment for a template id, by a stored user.
ThenAddDeployment ==
    \E template_id \in 1..MaxTemplates, created_by \in db.User :
        NewId(db, "Deployment") <= MaxDeployments
        /\ Then([fn |-> "add_deployment", entity |-> "Deployment", id |-> template_id],
                add_deployment(db, [template_id |-> template_id,
                                    user_group |-> "group-a"], created_by))

\* update_deployment of a stored deployment, by a stored user.
ThenUpdateDeployment ==
    \E deployment \in db.Deployment, updated_by \in db.User :
        Then([fn |-> "update_deployment", entity |-> "Deployment",
              id |-> deployment.id],
             update_deployment(db, deployment, [user_group |-> "group-b"], updated_by))

\* delete_template of a template id.
ThenDeleteTemplate ==
    \E template_id \in 1..MaxTemplates :
        Then([fn |-> "delete_template", entity |-> "Template", id |-> template_id],
             delete_template(db, template_id))

\* DELETE /templates/{template_id}
ThenRemoveTemplate ==
    \E template_id \in 1..MaxTemplates :
        Then([fn |-> "remove_template", entity |-> "Template", id |-> template_id],
             remove_template(db, template_id))

\* delete_deployment of a stored deployment, with and without force.
ThenDeleteDeployment ==
    \E deployment \in db.Deployment, force \in BOOLEAN :
        Then([fn |-> "delete_deployment", entity |-> "Deployment",
              id |-> deployment.id],
             delete_deployment(db, deployment, force))

\* One registered user, no template and no deployment.
InitStore ==
    /\ IdleAuth
    /\ IdleFilter
    /\ IdleLife
    /\ IdleList
    /\ IdlePage
    /\ db = [EmptyDb EXCEPT !.User = {StoredUser(1)}]
    /\ db_call = NoCall
    /\ db_out = ReturnedNone
    /\ db_prev = <<>>

NextStore ==
    \/ ThenAddTemplate \/ EditTemplate \/ ThenAddDeployment \/ ThenUpdateDeployment
    \/ ThenDeleteTemplate \/ ThenRemoveTemplate \/ ThenDeleteDeployment

SpecStore == InitStore /\ [][NextStore]_vars

(***************************************************************************)
(* deployments/dependencies.py, deployments/endpoints.py: the read         *)
(* representation of the stored deployments                                *)
(***************************************************************************)

\* The fields of DeploymentRead that come from the stored row's dump.
DeploymentReadFields ==
    {"id", "template_id", "user_group", "status", "created_at", "updated_at"}

\* DeploymentRead(**deployment.model_dump(),
\*                created_by=deployment.created_by_id,
\*                updated_by=deployment.created_by_id, ...)
DeploymentRead(deployment) ==
    [k \in DeploymentReadFields \union {"created_by", "updated_by"} |->
        IF k \in {"created_by", "updated_by"} THEN deployment.created_by_id
        ELSE deployment[k]]

\* deployment_required, then retrieve_deployment: GET /deployments/{id}
retrieve_deployment(tables, deployment_id) ==
    LET deployment == get_item(tables, "Deployment", deployment_id) IN
    IF deployment = {} THEN Raised("ItemNotFoundError")
    ELSE [exc |-> "", message |-> NoMessage,
          returned |-> <<DeploymentRead(CHOOSE d \in deployment : TRUE)>>]

\* retrieve_deployments: GET /deployments with the default query; the
\* DeploymentList of the page.
retrieve_deployments(tables, ordered) ==
    LET deployments == Window(ordered, (DefaultPage - 1) * DefaultSize, DefaultSize) IN
    [exc |-> "", message |-> NoMessage,
     returned |-> <<[data |-> [i \in 1..Len(deployments) |->
                                 DeploymentRead(deployments[i])],
                     page_number |-> DefaultPage, page_size |-> DefaultSize,
                     tot_items |-> Cardinality(tables.Deployment)]>>]

RetrieveDeployment ==
    \E deployment_id \in 1..(MaxDeployments + 1) :
        Then([fn |-> "retrieve_deployment", entity |-> "Deployment",
              id |-> deployment_id],
             [db |-> db, out |-> retrieve_deployment(db, deployment_id)])

RetrieveDeploymentList ==
    \E ordered \in Orderings(db.Deployment, <<"-", "created_at">>) :
        Then([fn |-> "retrieve_deployments", entity |-> "Deployment", id |-> 0],
             [db |-> db, out |-> retrieve_deployments(db, ordered)])

\* Stored deployments of template 1, each made by a stored user.
InitRead ==
    /\ IdleAuth
    /\ IdleFilter
    /\ IdleLife
    /\ IdleList
    /\ IdlePage
    /\ \E of \in [1..MaxDeployments -> 1..MaxUsers] :
          db = [User |-> {StoredUser(i) : i \in 1..MaxUsers},
                Template |-> {StoredTemplate(1)},
                Deployment |-> {StoredDeployment(d, 1, of[d]) : d \in 1..MaxDeployments},
                OwnedDeployments |-> {[owner_id |-> of[d], deployment_id |-> d] :
                                          d \in 1..MaxDeployments}]
    /\ db_call = NoCall
    /\ db_out = ReturnedNone
    /\ db_prev = <<>>

NextRead == ThenUpdateDeployment \/ RetrieveDeployment \/ RetrieveDeploymentList

SpecRead == InitRead /\ [][NextRead]_vars

(***************************************************************************)
(* deployments/resources/crud.py, dependencies.py, endpoints.py: the       *)
(* resources of a deployment                                               *)
(***************************************************************************)

\* A stored resource: its id and its parent deployment (models.py of the
\* sources defines no Resource; the row is the one add_resource makes).
ResourceRow(id, deployment_id) ==
    [id |-> id, deployment_id |-> deployment_id, created_at |-> id, created_by_id |-> 1]

\* Resources 1..n, each of one of the deployments 1..nd.
ResourceTables(nd) ==
    UNION {{{ResourceRow(i, of[i]) : i \in 1..n} : of \in [1..n -> 1..nd]} :
           n \in 0..MaxRows}

\* get_resource: get_item(entity=Resource, id=resource_id)
get_resource(rows, resource_id) == get_item([Resource |-> rows], "Resource", resource_id)

\* get_resources(deployment_id=deployment.id): the condition of the statement.
ResourcesConditions(deployment_id) ==
    <<[op |-> "==", col |-> Name("deployment_id"), val |-> PyUUID(deployment_id)]>>

\* ResourceRead(**resource.model_dump(), created_by=..., updated_by=...)
ResourceRead(resource) ==
    [id |-> resource.id, created_at |-> resource.created_at,
     created_by |-> resource.created_by_id, updated_by |-> resource.created_by_id]

\* deployment_required and resource_required, then retrieve_resource:
\* GET /deployments/{deployment_id}/resources/{resource_id}
retrieve_resource(tables, rows, deployment_id, resource_id) ==
    LET deployment == get_item(tables, "Deployment", deployment_id)
        resource == get_resource(rows, resource_id)
    IN IF deployment = {} \/ resource = {}
       THEN [exc |-> "ItemNotFoundError", items |-> <<>>]
       ELSE [exc |-> "", items |-> <<ResourceRead(CHOOSE r \in resource : TRUE)>>]

\* deployment_required, then retrieve_resources with the default query:
\* GET /deployments/{deployment_id}/resources
retrieve_resources(tables, deployment_id, ordered) ==
    LET deployment == get_item(tables, "Deployment", deployment_id)
        resources == Window(ordered, (DefaultPage - 1) * DefaultSize, DefaultSize)
    IN IF deployment = {}
       THEN [exc |-> "ItemNotFoundError", items |-> <<>>]
       ELSE [exc |-> "",
             items |-> [i \in 1..Len(resources) |-> ResourceRead(resources[i])]]

RetrieveResource ==
    /\ lst_call = NoCall
    /\ \E deployment_id \in 1..(MaxDeployments + 1), resource_id \in 1..(MaxRows + 1) :
        /\ lst_call' = [fn |-> "retrieve_resource", deployment_id |-> deployment_id,
                        resource_id |-> resource_id]
        /\ lst_out' = retrieve_resource(db, table, deployment_id, resource_id)
    /\ UNCHANGED <<table, lst_prev, authVars, fltVars, pgVars, dbVars, lifeVars>>

RetrieveResources ==
    /\ lst_call = NoCall
    /\ \E deployment_id \in 1..(MaxDeployments + 1) :
        \E ordered \in Orderings(Matching(table, ResourcesConditions(deployment_id)),
                                 <<"-", "created_at">>) :
            /\ lst_call' = [fn |-> "retrieve_resources", deployment_id |-> deployment_id,
                            resource_id |-> 0]
            /\ lst_out' = retrieve_resources(db, deployment_id, ordered)
    /\ UNCHANGED <<table, lst_prev, authVars, fltVars, pgVars, dbVars, lifeVars>>

\* Deployments 1..nd of template 1, and resources of them.
InitResource ==
    /\ IdleAuth
    /\ IdleFilter
    /\ IdleLife
    /\ IdlePage
    /\ \E nd \in 1..MaxDeployments :
        /\ db = [User |-> {StoredUser(1)},
                 Template |-> {StoredTemplate(1)},
                 Deployment |-> {StoredDeployment(d, 1, 1) : d \in 1..nd},
                 OwnedDeployments |-> {[owner_id |-> 1, deployment_id |-> d] :
                                           d \in 1..nd}]
        /\ table \in ResourceTables(nd)
    /\ db_call = NoCall
    /\ db_out = ReturnedNone
    /\ db_prev = <<>>
    /\ lst_call = NoCall
    /\ lst_out = NoResult
    /\ lst_prev = <<>>

NextResource == RetrieveResource \/ RetrieveResources

SpecResource == InitResource /\ [][NextResource]_vars

(***************************************************************************)
(* Properties                                                              *)
(***************************************************************************)

AuthCalled == auth_call.fn \in {"has_user_access", "has_admin_access"}

\* C1: in external-policy mode an HTTP 200 answer of the policy endpoint is
\* the decision: result true makes the check return without raising, result
\* false or missing ends in HTTP 401.
C1_OpaResultIsDecision ==
    (/\ settings.AUTHZ_MODE = "opa"
     /\ AuthCalled
     /\ auth_call.reply.kind = "response"
     /\ auth_call.reply.status_code = 200)
    => /\ auth_call.reply.body = "result_true" => auth_out = RETURNED
       /\ auth_call.reply.body \in {"result_false", "result_missing"}
            => auth_out = HTTP_401_UNAUTHORIZED

\* C2: in external-policy mode a non-200 answer, a timeout or an unreachable
\* policy endpoint ends has_user_access and has_admin_access in the
\* authorization-backend-failure outcome (the HTTP 500 raised by the check),
\* never in HTTP 401 and never in a return.
C2_BackendFailureOutcome ==
    (/\ settings.AUTHZ_MODE = "opa"
     /\ AuthCalled
     /\ \/ auth_call.reply.kind = "exception"
        \/ auth_call.reply.status_code # 200)
    => auth_out = HTTP_500_INTERNAL_SERVER_ERROR

FilterCalled(impl) == flt_call.fn = "get_conditions" /\ flt_call.impl = impl

\* The expressions of the result built for the i-th item of kwargs.
CondsOfItem(i) ==
    SelectSeq(flt_out.conds, LAMBDA c : c.key = flt_call.kwargs[i].k)

\* C5: get_conditions emits no predicate for a key whose value is None,
\* reserved range keys included: a call whose values are all None returns
\* the empty list, and no predicate of a returned list is for such a key.
C5_NoPredicateForNone ==
    FilterCalled("v1")
    => /\ (\A i \in DOMAIN flt_call.kwargs : flt_call.kwargs[i].v = PyNone)
            => flt_out = Returns(<<>>)
       /\ \A i \in DOMAIN flt_call.kwargs :
            flt_call.kwargs[i].v = PyNone => CondsOfItem(i) = <<>>

\* The reserved key of an item has its timestamp column in the entity.
RangeColumnExists(entity, k) ==
    k \in ReservedKeys /\ field_map[k][1] \in Columns(entity)

\* C6: for a reserved range key with a non-None value of any type,
\* get_conditions emits exactly one predicate for the key, the inclusive
\* comparison on the matching timestamp column, and no substring or
\* equality predicate.
C6_RangeKeyOnePredicate ==
    (/\ FilterCalled("v1")
     /\ \A i \in DOMAIN flt_call.kwargs :
            /\ RangeColumnExists(flt_call.entity, flt_call.kwargs[i].k)
            /\ flt_call.kwargs[i].v # PyNone)
    => /\ flt_out.exc = ""
       /\ Len(flt_out.conds) = Len(flt_call.kwargs)
       /\ \A i \in DOMAIN flt_call.kwargs :
            LET k == flt_call.kwargs[i].k IN
            flt_out.conds[i] =
                Expr(k, field_map[k][1], field_map[k][2], flt_call.kwargs[i].v)

\* The column a numeric filter key names: the key without its suffix.
NumericColumn(k) ==
    IF endswith(k, "_lte") \/ endswith(k, "_gte") THEN StripSuffix(k) ELSE k

NumericOp(k) ==
    IF endswith(k, "_lte") THEN "<=" ELSE IF endswith(k, "_gte") THEN ">=" ELSE "=="

\* C7: for a non-reserved key with a numeric value, get_conditions, in the
\* v1 and in the common implementation, emits <= on the column named by the
\* key without the suffix _lte, >= on the one without _gte, and otherwise
\* an equality on the column named by the key.
C7_NumericSuffix ==
    (/\ flt_call.fn = "get_conditions"
     /\ \A i \in DOMAIN flt_call.kwargs :
            /\ flt_call.kwargs[i].k \notin ReservedKeys
            /\ flt_call.kwargs[i].v.t = "int"
            /\ NumericColumn(flt_call.kwargs[i].k) \in Columns(flt_call.entity))
    => /\ flt_out.exc = ""
       /\ Len(flt_out.conds) = Len(flt_call.kwargs)
       /\ \A i \in DOMAIN flt_call.kwargs :
            LET k == flt_call.kwargs[i].k IN
            flt_out.conds[i] =
                Expr(k, NumericColumn(k), NumericOp(k), flt_call.kwargs[i].v)

\* C8: get_conditions never raises, whatever the keys and the value types;
\* a key that names no column, or a value that is neither a UUID, a string
\* nor a number, contributes no predicate.
C8_NeverRaises ==
    FilterCalled("v1")
    => /\ flt_out.exc = ""
       /\ \A i \in DOMAIN flt_call.kwargs :
            LET k == flt_call.kwargs[i].k
                v == flt_call.kwargs[i].v
            IN (/\ k \notin ReservedKeys
                /\ \/ NumericColumn(k) \notin Columns(flt_call.entity)
                   \/ v.t \notin {"UUID", "str", "int", "float"})
               => CondsOfItem(i) = <<>>

ListCalled == lst_call.fn = "get_items"

\* C9: listing deployments with a non-empty status parameter returns only
\* deployments whose status is one of the listed values and total_elements
\* counts only those; with an empty status no status filtering is applied.
C9_StatusFilter ==
    (ListCalled /\ lst_out.exc = "")
    => LET others == Matching(table, lst_out.page_conditions) IN
       IF lst_call.status # {}
       THEN /\ \A i \in DOMAIN lst_out.items :
                lst_out.items[i].status \in lst_call.status
            /\ lst_out.tot_items =
                Cardinality({row \in others : row.status \in lst_call.status})
       ELSE lst_out.tot_items = Cardinality(others)

\* C10: the total returned by get_items is the number of stored rows that
\* satisfy the same conjunction of predicates as the page query, whatever
\* skip, limit and sort are; the page holds at most limit items and each of
\* them is a stored row satisfying every predicate.
C10_TotalMatchesPage ==
    (ListCalled /\ lst_out.exc = "")
    => LET conditions == get_conditions("v1", "Deployment", lst_call.kwargs).conds IN
       /\ lst_out.page_conditions = conditions
       /\ lst_out.count_conditions = lst_out.page_conditions
       /\ lst_out.tot_items = Cardinality(Matching(table, conditions))
       /\ Len(lst_out.items) <= lst_call.limit
       /\ \A i \in DOMAIN lst_out.items :
            /\ lst_out.items[i] \in table
            /\ SatisfiesAll(lst_out.items[i], conditions)

\* C10 witness: a listing with a filter besides template_id left a stored
\* row out of the total and returned the matching row on a page of one.
C10_Witness ==
    /\ ListCalled
    /\ lst_out.exc = ""
    /\ Len(lst_out.page_conditions) > 1
    /\ lst_out.tot_items = 1
    /\ Cardinality(table) = MaxRows
    /\ lst_call.limit = 1
    /\ Len(lst_out.items) = 1

\* C11: two calls of get_items with the same skip, limit, sort and predicates
\* on the same stored rows return the same page, in the same order, and the
\* same total, also when matching rows share the value of the sort key.
C11_RepeatedCallSamePage ==
    (ListCalled /\ lst_prev # <<>>)
    => /\ lst_out.items = lst_prev[1].items
       /\ lst_out.tot_items = lst_prev[1].tot_items

PageCalled == pg_call.fn \in {"PaginatedList", "get_paginated_list"}

\* C12: for size >= 1 and total_elements >= 0, total_pages is the ceiling of
\* total_elements / size, that is the least number of pages of that size that
\* hold all the elements, except that it is 1 when total_elements = 0; it is
\* never 0.
C12_TotalPagesCeil ==
    PageCalled
    => /\ pg_out.total_elements = pg_call.tot_items
       /\ pg_out.total_pages >= 1
       /\ pg_call.tot_items = 0 => pg_out.total_pages = 1
       /\ pg_call.tot_items > 0 =>
            /\ pg_out.total_pages * pg_call.size >= pg_call.tot_items
            /\ (pg_out.total_pages - 1) * pg_call.size < pg_call.tot_items

\* 12 elements with size 5 give 3 pages; and the empty list gives 1 page.
C12_Witness ==
    /\ PageCalled
    /\ pg_call.tot_items = MaxTotal
    /\ pg_call.size = DefaultSize
    /\ pg_out.total_pages = (MaxTotal + DefaultSize - 1) \div DefaultSize

\* The page a link targets: the value of its page parameter (0 if it has
\* none or more than one).
TargetPage(link) ==
    LET given == SelectSeq(link[1].query, LAMBDA item : item.k = "page") IN
    IF Len(given) = 1 THEN int(given[1].v) ELSE 0

\* C13: first targets page 1 and last targets total_pages; prev is present
\* exactly when the current page > 1 and then targets current - 1; next is
\* present exactly when the current page < total_pages and then targets
\* current + 1.
C13_NavigationLinks ==
    PageCalled
    => LET links == pg_out.links IN
       /\ links.first # AbsentLink /\ TargetPage(links.first) = 1
       /\ links.last # AbsentLink /\ TargetPage(links.last) = pg_out.total_pages
       /\ (links.prev # AbsentLink) <=> (pg_call.page > 1)
       /\ links.prev # AbsentLink => TargetPage(links.prev) = pg_call.page - 1
       /\ (links.next # AbsentLink) <=> (pg_call.page < pg_out.total_pages)
       /\ links.next # AbsentLink => TargetPage(links.next) = pg_call.page + 1

\* The last page of a list of more than one page: next is absent, prev is not.
C13_Witness ==
    /\ PageCalled
    /\ pg_out.total_pages > 1
    /\ pg_call.page = pg_out.total_pages
    /\ pg_out.links.next = AbsentLink
    /\ pg_out.links.prev # AbsentLink

\* The items of a query other than those of the page parameter.
OtherThanPage(query) == SelectSeq(query, LAMBDA item : item.k # "page")

\* The items of a query whose parameter the request URL carries too.
OfRequestKeys(query, request) ==
    SelectSeq(query, LAMBDA item :
        \E i \in DOMAIN request : request[i].k = item.k /\ item.k # "page")

\* C14: every navigation link keeps size and every filter parameter of the
\* request URL with its value; only the page parameter differs.
C14_LinksKeepParameters ==
    PageCalled
    => \A name \in {"first", "prev", "next", "last"} :
         pg_out.links[name] # AbsentLink
         => /\ pg_out.links[name][1].path = pg_call.url.path
            /\ OfRequestKeys(pg_out.links[name][1].query, pg_call.url.query)
                 = OtherThanPage(pg_call.url.query)

FirstCall(fns) == db_call.fn \in fns /\ db_prev = <<>>

\* The unique constraints of the entity that the submitted values violate,
\* given the rows stored before the call.
ViolatedBy(entity, kwargs, before) ==
    {cols \in UniqueConstraints(entity) :
        \E row \in before[entity] :
            \A i \in DOMAIN cols : row[cols[i]] = kwargs[cols[i]]}

AddCalls == {"add_user", "add_template", "add_item", "add_deployment"}

\* The required columns the call gives no value for.
NotGiven(entity, fn, kwargs) ==
    IF fn = "add_item"
    THEN RequiredFields(entity) \ DOMAIN kwargs
    ELSE {}

\* C16: on create, a not-null violation ends in NotNullError, and no storage
\* error is swallowed: a call that returns normally has stored the row it
\* returns.
C16_NotNullAndNothingSwallowed ==
    FirstCall(AddCalls)
    => /\ NotGiven(db_call.entity, db_call.fn, db_call.kwargs) # {}
            => db_out.exc = "NotNullError"
       /\ db_out.exc = ""
            => /\ db_out.returned # <<>>
               /\ db_out.returned[1] \in db[db_call.entity]

\* The stored row of the updated deployment, as an option.
UpdatedRow == {row \in db.Deployment : row.id = db_call.item.id}

\* The other rows are as they were before the call.
OtherRowsKept(entity, id) ==
    /\ {row \in db[entity] : row.id # id}
         = {row \in db_call.before[entity] : row.id # id}
    /\ \A other \in DOMAIN db : other # entity => db[other] = db_call.before[other]

\* C17: an update of a stored Deployment with a payload of user_group only
\* changes only user_group and updated_at of that deployment, whichever user
\* issues it; every other field and every other row keeps its value.
C17_OnlyUserGroupChanges ==
    (FirstCall({"update_deployment"}) /\ DOMAIN db_call.kwargs = {"user_group"})
    => /\ UpdatedRow # {}
       /\ \A row \in UpdatedRow :
            /\ row.user_group = db_call.kwargs.user_group
            /\ \A c \in DOMAIN row \ {"user_group", "updated_at"} :
                 row[c] = db_call.item[c]
       /\ OtherRowsKept("Deployment", db_call.item.id)

\* C17 as amended: the update changes only user_group, updated_at and
\* updated_by_id, which becomes the id of the user who issues the update.
C17_OnlyUserGroupAndEditorChange ==
    (FirstCall({"update_deployment"}) /\ DOMAIN db_call.kwargs = {"user_group"})
    => /\ UpdatedRow # {}
       /\ \A row \in UpdatedRow :
            /\ row.user_group = db_call.kwargs.user_group
            /\ row.updated_by_id = db_call.updated_by.id
            /\ row.updated_at >= db_call.item.updated_at
            /\ \A c \in DOMAIN row \ {"user_group", "updated_at", "updated_by_id"} :
                 row[c] = db_call.item[c]
       /\ OtherRowsKept("Deployment", db_call.item.id)

\* An update by another user than the last editor, to another group, with
\* another deployment stored.
C17_Witness ==
    /\ FirstCall({"update_deployment"})
    /\ DOMAIN db_call.kwargs = {"user_group"}
    /\ db_call.kwargs.user_group # db_call.item.user_group
    /\ db_call.updated_by.id # db_call.item.updated_by_id
    /\ Cardinality(db.Deployment) > 1
    /\ \E row \in UpdatedRow : row.updated_at > db_call.item.updated_at

\* The target of a delete call among the rows stored before it.
Target == {row \in db_call.before[db_call.entity] : row.id = db_call.id}

\* C18: a physical delete that the engine refuses because dependent rows
\* exist ends in DeleteFailedError and leaves the row stored.
C18_RefusedDeleteFails ==
    (/\ FirstCall({"delete_template"})
     /\ \E row \in Target : Dependents(db_call.before, db_call.entity, row) # {})
    => /\ db_out.exc = "DeleteFailedError"
       /\ Target \subseteq db[db_call.entity]

\* C19: the second of two Delete calls with force on the same id ends in the
\* NotFound outcome and does not crash.
C19_SecondDeleteNotFound ==
    (db_call.fn \in DeleteCalls /\ db_call.force /\ db_prev # <<>>)
    => db_out.exc = "ItemNotFoundError"

\* C20: a physical delete of a stored row with no dependent rows removes
\* exactly that row: read-one by its id gives nothing, and every other row is
\* stored as before.
C20_DeleteRemovesTarget ==
    (/\ FirstCall({"delete_user", "delete_template", "delete_deployment"})
     /\ db_call.force
     /\ Target # {}
     /\ \A row \in Target : Dependents(db_call.before, db_call.entity, row) = {})
    => /\ get_item(db, db_call.entity, db_call.id) = {}
       /\ OtherRowsKept(db_call.entity, db_call.id)

\* The DeploymentStatus values that mark a deployment as deleted.
DeletedStatuses == {DELETE_COMPLETE, DELETE_IN_PROGRESS}

\* C21: delete_deployment without force does not remove the row but marks it
\* as deleted: afterwards the row is stored and its status is one of the
\* deleted ones.
C21_SoftDeleteMarksStatus ==
    (FirstCall({"delete_deployment"}) /\ ~db_call.force /\ Target # {})
    => \A row \in Target :
         \E stored \in db.Deployment :
            stored.id = row.id /\ stored.status \in DeletedStatuses

\* The template as it was created.
Created(template) == StoredTemplate(template.id)

\* C22: after any sequence of template updates with any payloads, every
\* template has the content and the hash_content it was created with, the
\* hash_content is the SHA-256 of the content, and only name, version,
\* target_provider_type, tosca_definitions_version, the update time and the
\* updater differ from the created template.
C22_ContentImmutable ==
    /\ {template.id : template \in db.Template} = 1..MaxTemplates
    /\ \A template \in db.Template :
        /\ template.content = Created(template).content
        /\ template.hash_content = Created(template).hash_content
        /\ template.hash_content = sha256(template.content)
        /\ \A c \in DOMAIN template \ (TemplateUpdateFields
                                           \union {"updated_at", "updated_by_id"}) :
             template[c] = Created(template)[c]

\* A template patched twice, at last with a body that carries another
\* content: its name, update time and updater are new.
C22_Witness ==
    /\ Len(db_prev) = 2
    /\ db_call.fn = "edit_template"
    /\ "content" \in DOMAIN db_call.body
    /\ \E template \in db.Template :
        /\ template.id = db_call.id
        /\ db_call.body.content # template.content
        /\ template.name = "a"
        /\ template.updated_by_id # Created(template).updated_by_id
        /\ template.updated_at = Now

\* The stored deployments of a template id.
DeploymentsOf(tables, template_id) ==
    {deployment \in tables.Deployment : deployment.template_id = template_id}

CallsOf(fn) == SelectSeq(lifespan.calls, LAMBDA call : call.fn = fn)

\* C24: when the lifespan context has yielded, get_logger,
\* configure_flaat(settings, logger) and create_db_and_tables(logger) have
\* each been called exactly once and the state yielded is the logger;
\* dispose_engine is not called before the context exits, and when it has
\* exited dispose_engine has been called exactly once, with the logger.
C24_LifespanCalls ==
    /\ lifespan.pc \in {"yielded", "exited"}
        => /\ Len(CallsOf("get_logger")) = 1
           /\ CallsOf("configure_flaat") = <<Call("configure_flaat", <<settings, logger>>)>>
           /\ CallsOf("create_db_and_tables")
                = <<Call("create_db_and_tables", <<logger>>)>>
           /\ lifespan.state = <<[logger |-> logger]>>
    /\ lifespan.pc # "exited" => CallsOf("dispose_engine") = <<>>
    /\ lifespan.pc = "exited"
        => CallsOf("dispose_engine") = <<Call("dispose_engine", <<logger>>)>>

\* The stored user a request designates.
Designated ==
    {user \in db.User :
        IF IsMe(db_call.user_id) THEN user.id = db_call.current_user
        ELSE user.id = db_call.user_id.v}

\* C25: when remove_user_public_key has succeeded for a user, the stored
\* public_ssh_key of that user is None, and the add_user_ssh_keys or
\* add_user_public_key that follows for the same user succeeds.
C25_RemovedKeyIsUnset ==
    /\ []((db_call.fn = "remove_user_public_key" /\ db_out.exc = "")
           => \A user \in Designated : user.public_ssh_key = None)
    /\ [][(/\ db_call.fn = "remove_user_public_key"
            /\ db_out.exc = ""
            /\ db_call'.fn \in {"add_user_ssh_keys", "add_user_public_key"}
            /\ db_call'.user_id.t = db_call.user_id.t
            /\ db_call'.user_id.v = db_call.user_id.v)
           => db_out'.exc = ""]_vars

\* C26: a request to remove_user that designates the user who issues it, by
\* "me" or by that user's id, is rejected with 400 and the user's row is
\* stored afterwards.
C26_NoSelfRemoval ==
    (/\ db_call.fn = "remove_user"
     /\ (IsMe(db_call.user_id) \/ db_call.user_id.v = db_call.current_user))
    => /\ db_out.exc = "HTTP_400_BAD_REQUEST"
       /\ \E user \in db.User : user.id = db_call.current_user

\* The read representations a retrieval returned.
Reads ==
    IF db_call.fn = "retrieve_deployment" /\ db_out.exc = ""
    THEN {db_out.returned[1]}
    ELSE IF db_call.fn = "retrieve_deployments"
    THEN {db_out.returned[1].data[i] : i \in 1..Len(db_out.returned[1].data)}
    ELSE {}

\* C27: every read representation of a deployment, retrieved alone or in a
\* list, reports created_by as the user who made the stored deployment and
\* updated_by as the user who last updated it.
C27_ReadReportsEditor ==
    \A read \in Reads : \A deployment \in db.Deployment :
        deployment.id = read.id
        => /\ read.created_by = deployment.created_by_id
           /\ read.updated_by = deployment.updated_by_id

\* The stored users whose (sub, issuer) is that of the token.
SameIdentity ==
    {user \in table : /\ user.sub = lst_call.user_info.sub
                      /\ user.issuer = lst_call.user_info.iss}

\* C28: get_current_user raises ItemNotFoundError when no stored user has
\* the (sub, iss) of the token, and else resolves to a stored user that has
\* exactly that pair.
C28_ExactIdentity ==
    (lst_call # NoCall /\ lst_call.fn = "get_current_user")
    => IF SameIdentity = {}
       THEN lst_out.exc = "ItemNotFoundError"
       ELSE lst_out.exc = "" /\ lst_out.user[1] \in SameIdentity

\* The stored resources of the request's resource_id whose parent is the
\* request's deployment_id.
OwnResource ==
    {resource \in table : /\ resource.id = lst_call.resource_id
                          /\ resource.deployment_id = lst_call.deployment_id}

\* C29: retrieve_resource returns the resource of resource_id when its
\* parent is deployment_id and ends in ItemNotFoundError otherwise, and
\* retrieve_resources lists only resources whose parent is deployment_id.
C29_ResourceOfDeployment ==
    /\ (lst_call # NoCall /\ lst_call.fn = "retrieve_resource")
       => IF OwnResource = {}
          THEN lst_out.exc = "ItemNotFoundError"
          ELSE lst_out.exc = "" /\ lst_out.items[1].id = lst_call.resource_id
    /\ (lst_call # NoCall /\ lst_call.fn = "retrieve_resources")
       => \A i \in 1..Len(lst_out.items) : \A resource \in table :
              resource.id = lst_out.items[i].id
              => resource.deployment_id = lst_call.deployment_id

\* The links of a response that are present.
PresentLinks ==
    {link \in {pg_out.links.first, pg_out.links.prev, pg_out.links.next,
               pg_out.links.last} : link # AbsentLink}

\* C30: for every page_number >= 1, page_size >= 1 and tot_items >= 0, also
\* with page_number greater than total_pages, every navigation link that is
\* present targets a page in 1..total_pages.
C30_LinksInRange ==
    PageCalled
    => \A link \in PresentLinks : TargetPage(link) \in 1..pg_out.total_pages

\* C30, amended: first, last and a present next target a page in
\* 1..total_pages; a present prev targets page_number - 1, which is in
\* 1..total_pages exactly when page_number <= total_pages + 1.
C30_LinksInRangeButPrev ==
    PageCalled
    => LET links == pg_out.links IN
       /\ TargetPage(links.first) \in 1..pg_out.total_pages
       /\ TargetPage(links.last) \in 1..pg_out.total_pages
       /\ links.next # AbsentLink => TargetPage(links.next) \in 1..pg_out.total_pages
       /\ links.prev # AbsentLink =>
            /\ TargetPage(links.prev) = pg_call.page - 1
            /\ TargetPage(links.prev) >= 1
            /\ (TargetPage(links.prev) <= pg_out.total_pages)
               <=> (pg_call.page <= pg_out.total_pages + 1)

\* Page 3 of an empty list, which has one page: prev targets page 2.
C30_Witness ==
    /\ PageCalled
    /\ pg_call.tot_items = 0
    /\ pg_call.page > pg_out.total_pages + 1
    /\ pg_out.links.prev # AbsentLink
    /\ TargetPage(pg_out.links.prev) > pg_out.total_pages
    /\ pg_out.links.next = AbsentLink

====
